---- MODULE Spec2Model ----
(***************************************************************************)
(* A model of the fatrs FAT filesystem engine (crate fatrs).               *)
(*                                                                         *)
(* Five state machines share this module, each with its own                *)
(* specification; every specification pins the variables of the others     *)
(* at their initial values.                                                *)
(*                                                                         *)
(*   SpecLock  the advisory file-lock manager (file_locking.rs) driven by  *)
(*             tasks that open and close locked handles;                   *)
(*   SpecTxn   the intent log (transaction.rs) under with_transaction,     *)
(*             crash and re-mount;                                         *)
(*   SpecFile  one file handle (file.rs, multi_cluster_io.rs) over a FAT,  *)
(*             a device and the free-cluster bitmap (cluster_bitmap.rs);   *)
(*   SpecCache the FAT12 accessor over the FAT sector cache (fat_cache.rs);*)
(*   SpecLog   the intent log alone (transaction.rs): its slots as          *)
(*             concurrent transactions drive them, damage, and reload.     *)
(***************************************************************************)
EXTENDS Integers, Sequences, FiniteSets, TLC

VARIABLES
    \* ---- file-lock manager ----
    locks,        \* FileLockManager.locks: first cluster -> FileLockState
    holder,       \* per task: the locked handle it holds, or NoLock
    lockResult,   \* per task: result of its last locked open
    lockLast,     \* the last try_lock call: arguments, pre-state, result
    \* ---- transaction log ----
    entries,      \* TransactionLog.entries (in memory)
    sequence,     \* TransactionLog.sequence
    logDisk,      \* the log's reserved sectors on the device, one slot each
    sectors,      \* contents of the metadata sectors transactions mutate
    mounted,      \* FALSE between a power loss and the next mount
    txPc,         \* per task: its position inside with_transaction
    txSlot,       \* per task: the slot begin_transaction returned
    txArgs,       \* per task: the arguments of its with_transaction call
    txCrash,      \* what the last power loss interrupted (per task), and the sectors then
    txRecovered,  \* TRUE right after a mount's recovery pass, until the next step
    \* ---- one file over a FAT volume ----
    fat,          \* the file allocation table: entry -> FatValue
    data,         \* the data region: cluster -> its bytes
    bitmap,       \* ClusterBitmap
    dirtyFlag,    \* the volume dirty flag
    dirEntry,     \* the file's directory entry on the device
    ctx,          \* File.context (FileContext) of the open handle
    fLast,        \* the last operation on the handle: arguments, path taken, result
    fPhase,       \* "write": only writes since creation; "read": then re-opened
                  \* and only read; "mixed": anything else
    fWritten,     \* bytes accepted by write so far while fPhase is "write" or
                  \* "read" (0 once "mixed")
    fStray,       \* operations completed since the handle's position first
                  \* stopped matching its offset, that one included (0: never)
    \* ---- FAT sector cache ----
    fatDev,       \* the FAT region on the device, byte by byte
    fatCache,     \* FatCache: sectors (slots) and access_counter
    fatCached,    \* whether the build has feature fat-cache
    fatShadow,    \* per FAT entry, the value last stored by set
    fcOrder,      \* the filled slots, least recently used first
    fcLast,       \* the last FAT operation: arguments, result, slot used
    fcDirect,     \* the FAT region as it would be with every write made directly
    fcRange,      \* the last byte-range call on the cache: range and bytes returned
    \* ---- the intent log alone ----
    txBegin,      \* the last begin_transaction call: result and what it found
    txHeld,       \* slots handed out by begin_transaction and not yet cleared
    txMaxSeq,     \* the largest sequence number begin_transaction ever assigned
    \* ---- the cluster bitmap alone ----
    bm,           \* a ClusterBitmap driven through its public interface
    bmLast,       \* the last call on it: arguments, result, the bitmap before
    \* ---- directory-entry cache ----
    dirCache,     \* DirCache: entries (slots), lru_queue, access_counter
    dirDisk,      \* the directories on the device: parent -> name -> entry
    dcLast,       \* the last lookup: arguments, hit or miss, the entry returned
    \* ---- page buffer (fatrs-adapters-core) ----
    pageBuf,      \* PageBuffer: buffer, dirty, current_page
    pbDev,        \* the block device under it: page -> bytes
    pbAccepted,   \* page -> the bytes last accepted for it (written or loaded)
    pbLast,       \* the last call: arguments, result, the buffer before it
    \* ---- cluster checkpoints of the file handle (feature cluster-checkpoints) ----
    ckpt,         \* FileContext: checkpoints, checkpoint_count
    \* ---- tasks creating files on one shared volume ----
    crFat,        \* the volume's FAT: cluster -> entry
    crDir,        \* the root directory: slot -> entry
    crData,       \* the data region: cluster -> the byte that fills it
    crDisk,       \* the shared byte stream: the task holding its lock, its position
    crPc,         \* per task: where it is suspended
    crLocal       \* per task: the slot and cluster its futures hold across suspensions

lockVars == <<locks, holder, lockResult, lockLast>>
txnVars == <<entries, sequence, logDisk, sectors, mounted, txPc, txSlot, txArgs,
             txCrash, txRecovered>>

fileVars == <<fat, data, bitmap, dirtyFlag, dirEntry, ctx, fLast, fPhase, fWritten,
              fStray>>

cacheVars == <<fatDev, fatCache, fatCached, fatShadow, fcOrder, fcLast, fcDirect,
               fcRange>>

logGhostVars == <<txBegin, txHeld, txMaxSeq>>

bitmapVars == <<bm, bmLast>>

dirCacheVars == <<dirCache, dirDisk, dcLast>>

pageVars == <<pageBuf, pbDev, pbAccepted, pbLast>>

checkpointVars == <<ckpt>>

createVars == <<crFat, crDir, crData, crDisk, crPc, crLocal>>

vars == <<lockVars, txnVars, fileVars, cacheVars, logGhostVars, bitmapVars, dirCacheVars, pageVars,
          checkpointVars, createVars>>

None == "None"

(***************************************************************************)
(*                     FILE LOCK MANAGER (file_locking.rs)                 *)
(***************************************************************************)

\* Tasks that may try to open the same files concurrently.
NumTasks == 3
\* Files that can be locked, named by their first cluster 2 .. NumLockFiles+1.
NumLockFiles == 2

Tasks == 1..NumTasks
LockKeys == 2..(NumLockFiles + 1)

Shared == "Shared"
Exclusive == "Exclusive"
LockType == {Shared, Exclusive}

\* A handle as the lock manager sees it: cluster is the key its lock was
\* taken under, lock_type its lock_info, first_cluster its context.first_cluster.
NoLock == [cluster |-> 0, lock_type |-> None, first_cluster |-> 0]
LockedHandle(c, ty) == [cluster |-> c, lock_type |-> ty, first_cluster |-> c]

\* FileLockState::new_shared / new_exclusive / is_empty
new_shared == [readers |-> 1, exclusive |-> FALSE]
new_exclusive == [readers |-> 0, exclusive |-> TRUE]
is_empty(state) == state.readers = 0 /\ ~state.exclusive

\* The state get_lock_state reports, with (0, FALSE) standing for "no entry".
LockStateOf(l, cluster) ==
    IF cluster \in DOMAIN l THEN l[cluster] ELSE [readers |-> 0, exclusive |-> FALSE]

\* BTreeMap::insert and BTreeMap::remove on the lock table.
MapInsert(l, k, v) == [x \in (DOMAIN l) \cup {k} |-> IF x = k THEN v ELSE l[x]]
MapRemove(l, k) == [x \in (DOMAIN l) \ {k} |-> l[x]]

\* Mutants of try_lock (plausible slips in the compatibility table).
try_lock_excl_ignores_excl(l, cluster, lock_type) ==
    IF cluster \in DOMAIN l
    THEN LET state == l[cluster] IN
         IF lock_type = Shared
         THEN IF state.exclusive
              THEN [ok |-> FALSE, locks |-> l]
              ELSE [ok |-> TRUE,
                    locks |-> [l EXCEPT ![cluster].readers = state.readers + 1]]
         ELSE IF state.readers > 0
              THEN [ok |-> FALSE, locks |-> l]
              ELSE [ok |-> TRUE, locks |-> [l EXCEPT ![cluster].exclusive = TRUE]]
    ELSE [ok |-> TRUE,
          locks |-> MapInsert(l, cluster,
                        IF lock_type = Shared THEN new_shared ELSE new_exclusive)]

try_lock_excl_ignores_readers(l, cluster, lock_type) ==
    IF cluster \in DOMAIN l
    THEN LET state == l[cluster] IN
         IF lock_type = Shared
         THEN IF state.exclusive
              THEN [ok |-> FALSE, locks |-> l]
              ELSE [ok |-> TRUE,
                    locks |-> [l EXCEPT ![cluster].readers = state.readers + 1]]
         ELSE IF state.exclusive
              THEN [ok |-> FALSE, locks |-> l]
              ELSE [ok |-> TRUE, locks |-> [l EXCEPT ![cluster].exclusive = TRUE]]
    ELSE [ok |-> TRUE,
          locks |-> MapInsert(l, cluster,
                        IF lock_type = Shared THEN new_shared ELSE new_exclusive)]

try_lock_shared_blocked_by_readers(l, cluster, lock_type) ==
    IF cluster \in DOMAIN l
    THEN LET state == l[cluster] IN
         IF lock_type = Shared
         THEN IF state.exclusive \/ state.readers > 1
              THEN [ok |-> FALSE, locks |-> l]
              ELSE [ok |-> TRUE,
                    locks |-> [l EXCEPT ![cluster].readers = state.readers + 1]]
         ELSE IF state.exclusive \/ state.readers > 0
              THEN [ok |-> FALSE, locks |-> l]
              ELSE [ok |-> TRUE, locks |-> [l EXCEPT ![cluster].exclusive = TRUE]]
    ELSE [ok |-> TRUE,
          locks |-> MapInsert(l, cluster,
                        IF lock_type = Shared THEN new_shared ELSE new_exclusive)]

\* FileLockManager::try_lock: the result (Ok = TRUE, Err = FALSE) and the new table.
\* `readers += 1` is a u32 addition; with at most NumTasks handles the count
\* stays far below u32::MAX, so it is modelled without the wrap.
try_lock(l, cluster, lock_type) ==
    IF cluster \in DOMAIN l
    THEN LET state == l[cluster] IN
         IF lock_type = Shared
         THEN IF state.exclusive
              THEN [ok |-> FALSE, locks |-> l]
              ELSE [ok |-> TRUE,
                    locks |-> [l EXCEPT ![cluster].readers = state.readers + 1]]
         ELSE IF state.exclusive \/ state.readers > 0
              THEN [ok |-> FALSE, locks |-> l]
              ELSE [ok |-> TRUE, locks |-> [l EXCEPT ![cluster].exclusive = TRUE]]
    ELSE [ok |-> TRUE,
          locks |-> MapInsert(l, cluster,
                        IF lock_type = Shared THEN new_shared ELSE new_exclusive)]

\* u32::MAX for the reader count, scaled.
LockU32Max == 7

\* Mutant of unlock: the entry is removed whatever is left in it.
unlock_always_removes(l, cluster, lock_type) ==
    IF cluster \in DOMAIN l THEN MapRemove(l, cluster) ELSE l

\* Mutant of unlock: the reader count is decremented as a plain u32, wrapping.
unlock_wrapping_sub(l, cluster, lock_type) ==
    IF cluster \in DOMAIN l
    THEN LET state == l[cluster]
             released ==
                 IF lock_type = Shared
                 THEN [state EXCEPT !.readers = (state.readers - 1) % (LockU32Max + 1)]
                 ELSE [state EXCEPT !.exclusive = FALSE]
         IN IF is_empty(released)
            THEN MapRemove(l, cluster)
            ELSE [l EXCEPT ![cluster] = released]
    ELSE l

\* The debug assertions of unlock: with them compiled in, the call panics
\* before it changes anything when the lock it is to release is not held.
unlock_panics(l, cluster, lock_type) ==
    IF cluster \in DOMAIN l
    THEN IF lock_type = Shared THEN l[cluster].readers = 0 ELSE ~l[cluster].exclusive
    ELSE TRUE

\* FileLockManager::unlock (release build: the debug assertions are not compiled).
unlock(l, cluster, lock_type) ==
    IF cluster \in DOMAIN l
    THEN LET state == l[cluster]
             released ==
                 IF lock_type = Shared
                 THEN [state EXCEPT !.readers = IF state.readers > 0
                                                THEN state.readers - 1 ELSE 0]
                 ELSE [state EXCEPT !.exclusive = FALSE]
         IN IF is_empty(released)
            THEN MapRemove(l, cluster)
            ELSE [l EXCEPT ![cluster] = released]
    ELSE l

\* FileLockManager::new
InitLockVars ==
    /\ locks = <<>>
    /\ holder = [t \in Tasks |-> NoLock]
    /\ lockResult = [t \in Tasks |-> None]
    /\ lockLast = [op |-> None, cluster |-> 0, lock_type |-> None,
                   ok |-> FALSE, pre |-> <<>>]

\* A locked open of the file whose first cluster is `cluster`: the lock is
\* tried first and the handle (File::new_with_lock) exists only on success;
\* a refused lock is reported as Error::FileLocked.
OpenLocked(t, cluster, lock_type) ==
    /\ holder[t] = NoLock
    /\ LET r == try_lock(locks, cluster, lock_type) IN
        /\ locks' = r.locks
        /\ holder' = [holder EXCEPT ![t] =
                        IF r.ok THEN LockedHandle(cluster, lock_type)
                        ELSE NoLock]
        /\ lockResult' = [lockResult EXCEPT ![t] = IF r.ok THEN "Ok" ELSE "FileLocked"]
        /\ lockLast' = [op |-> "try_lock", cluster |-> cluster, lock_type |-> lock_type,
                        ok |-> r.ok, pre |-> locks]
    /\ UNCHANGED <<txnVars, fileVars, cacheVars, logGhostVars, bitmapVars, dirCacheVars, pageVars, checkpointVars, createVars>>

\* File::close_and_unlock on the lock table: unlock is called only when the
\* handle carries lock_info and has a first cluster, and with that cluster.
close_and_unlock(l, handle) ==
    IF handle.lock_type # None /\ handle.first_cluster # 0
    THEN unlock(l, handle.first_cluster, handle.lock_type)
    ELSE l

\* File::close_and_unlock of task t's handle.
CloseAndUnlock(t) ==
    /\ holder[t] # NoLock
    /\ locks' = close_and_unlock(locks, holder[t])
    /\ holder' = [holder EXCEPT ![t] = NoLock]
    /\ lockResult' = [lockResult EXCEPT ![t] = None]
    /\ lockLast' = [op |-> IF holder[t].lock_type # None THEN "unlock" ELSE "close_clone",
                    cluster |-> holder[t].cluster,
                    lock_type |-> holder[t].lock_type, ok |-> TRUE, pre |-> locks]
    /\ UNCHANGED <<txnVars, fileVars, cacheVars, logGhostVars, bitmapVars, dirCacheVars, pageVars, checkpointVars, createVars>>

\* Mutant of clone: the copy keeps lock_info.
clone_inherits_lock(handle) == handle

\* impl Clone for File, as far as locking goes: the same file, lock_info None.
clone(handle) == [handle EXCEPT !.lock_type = None]

\* Task u receives a clone of task t's handle.
FileClone(t, u) ==
    /\ holder[t] # NoLock
    /\ holder[u] = NoLock
    /\ holder' = [holder EXCEPT ![u] = clone(holder[t])]
    /\ lockResult' = [lockResult EXCEPT ![u] = None]
    /\ lockLast' = [op |-> "clone", cluster |-> holder[t].cluster,
                    lock_type |-> holder[t].lock_type, ok |-> TRUE, pre |-> locks]
    /\ UNCHANGED locks
    /\ UNCHANGED <<txnVars, fileVars, cacheVars, logGhostVars, bitmapVars, dirCacheVars, pageVars, checkpointVars, createVars>>

\* File::close or the drop of a clone: the lock manager is not involved.  (A
\* handle opened with a lock is closed with close_and_unlock, as the
\* documentation of close asks.)
CloseOrDrop(t) ==
    /\ holder[t] # NoLock
    /\ holder[t].lock_type = None
    /\ holder' = [holder EXCEPT ![t] = NoLock]
    /\ lockResult' = [lockResult EXCEPT ![t] = None]
    /\ lockLast' = [op |-> "close_clone", cluster |-> holder[t].cluster,
                    lock_type |-> holder[t].lock_type, ok |-> TRUE, pre |-> locks]
    /\ UNCHANGED locks
    /\ UNCHANGED <<txnVars, fileVars, cacheVars, logGhostVars, bitmapVars, dirCacheVars, pageVars, checkpointVars, createVars>>

\* FileLockManager::unlock called for a lock that nobody holds, in a build
\* with or without debug assertions.
StrayUnlock(cluster, lock_type, debug_assertions) ==
    /\ unlock_panics(locks, cluster, lock_type)
    /\ locks' = IF debug_assertions THEN locks ELSE unlock(locks, cluster, lock_type)
    /\ lockLast' = [op |-> "stray_unlock", cluster |-> cluster, lock_type |-> lock_type,
                    ok |-> ~debug_assertions, pre |-> locks]
    /\ UNCHANGED <<holder, lockResult>>
    /\ UNCHANGED <<txnVars, fileVars, cacheVars, logGhostVars, bitmapVars, dirCacheVars, pageVars, checkpointVars, createVars>>

NextLock ==
    \/ \E t \in Tasks, c \in LockKeys, ty \in LockType : OpenLocked(t, c, ty)
    \/ \E c \in LockKeys, ty \in LockType, dbg \in BOOLEAN : StrayUnlock(c, ty, dbg)
    \/ \E t \in Tasks : CloseAndUnlock(t)
    \/ \E t, u \in Tasks : FileClone(t, u)
    \/ \E t \in Tasks : CloseOrDrop(t)

\* A cluster outside the locked files that the allocator may hand out.
SpareCluster == NumLockFiles + 2

\* seek(0) followed by File::truncate on task t's handle: the chain is freed
\* and context.first_cluster becomes None.  (The guard bounds how many locks
\* can be left behind on one key.)
TruncateToZero(t) ==
    /\ holder[t] # NoLock
    /\ holder[t].first_cluster # 0
    /\ LockStateOf(locks, holder[t].cluster).readers <= NumTasks
    /\ holder' = [holder EXCEPT ![t].first_cluster = 0]
    /\ lockLast' = [op |-> "truncate", cluster |-> holder[t].cluster,
                    lock_type |-> holder[t].lock_type, ok |-> TRUE, pre |-> locks]
    /\ UNCHANGED <<locks, lockResult>>
    /\ UNCHANGED <<txnVars, fileVars, cacheVars, logGhostVars, bitmapVars, dirCacheVars, pageVars, checkpointVars, createVars>>

\* The first write on a handle without a first cluster: a cluster that no
\* open file uses is allocated and File::set_first_cluster records it.
FirstWrite(t, c) ==
    /\ holder[t] # NoLock
    /\ holder[t].first_cluster = 0
    /\ \A u \in Tasks \ {t} : holder[u].first_cluster # c /\ holder[u].cluster # c
    /\ holder' = [holder EXCEPT ![t].first_cluster = c]
    /\ lockLast' = [op |-> "write", cluster |-> holder[t].cluster,
                    lock_type |-> holder[t].lock_type, ok |-> TRUE, pre |-> locks]
    /\ UNCHANGED <<locks, lockResult>>
    /\ UNCHANGED <<txnVars, fileVars, cacheVars, logGhostVars, bitmapVars, dirCacheVars, pageVars, checkpointVars, createVars>>

\* Locked handles that are also truncated and written.
NextLockedFile ==
    \/ \E t \in Tasks, c \in LockKeys, ty \in LockType : OpenLocked(t, c, ty)
    \/ \E t \in Tasks : CloseAndUnlock(t)
    \/ \E t \in Tasks : TruncateToZero(t)
    \/ \E t \in Tasks, c \in LockKeys \cup {SpareCluster} : FirstWrite(t, c)

\* ---- claims about the lock manager ----

ExclusiveHolders(c) ==
    {t \in Tasks : holder[t].cluster = c /\ holder[t].lock_type = Exclusive}

\* C4: of any number of attempts to open the same file with exclusive-lock
\* intent at most one succeeds and the others get FileLocked: no first
\* cluster ever has two exclusive holders, and an exclusive attempt made
\* while another task holds the exclusive lock is refused.
C4_AtMostOneExclusive ==
    /\ \A c \in LockKeys : Cardinality(ExclusiveHolders(c)) <= 1
    /\ \A t \in Tasks :
          (/\ lockLast.op = "try_lock"
           /\ lockLast.lock_type = Exclusive
           /\ lockResult[t] = "Ok"
           /\ holder[t].cluster = lockLast.cluster /\ holder[t].lock_type = Exclusive)
          => \A u \in Tasks \ {t} :
                 ~(holder[u].cluster = lockLast.cluster /\ holder[u].lock_type = Exclusive)
    /\ (/\ lockLast.op = "try_lock"
        /\ lockLast.lock_type = Exclusive
        /\ LockStateOf(lockLast.pre, lockLast.cluster).exclusive)
       => ~lockLast.ok

\* Witness of C4: one task holds the exclusive lock and another task's
\* exclusive attempt on the same file was refused with FileLocked.
C4_Witness ==
    \E t, u \in Tasks :
        /\ t # u
        /\ holder[t].lock_type = Exclusive
        /\ lockResult[u] = "FileLocked"
        /\ lockLast.op = "try_lock"
        /\ lockLast.lock_type = Exclusive
        /\ lockLast.cluster = holder[t].cluster

\* C5: try_lock(cluster, Exclusive) succeeds iff the cluster has no reader
\* and no exclusive holder; on success the exclusive flag is set, on failure
\* the lock table is unchanged.
C5_ExclusiveIff ==
    (lockLast.op = "try_lock" /\ lockLast.lock_type = Exclusive) =>
        LET pre == LockStateOf(lockLast.pre, lockLast.cluster) IN
        /\ lockLast.ok <=> (pre.readers = 0 /\ ~pre.exclusive)
        /\ lockLast.ok => LockStateOf(locks, lockLast.cluster) =
                              [readers |-> 0, exclusive |-> TRUE]
        /\ ~lockLast.ok => locks = lockLast.pre

\* Witness of C5: an exclusive try_lock was refused because readers hold
\* the cluster.
C5_Witness ==
    /\ lockLast.op = "try_lock"
    /\ lockLast.lock_type = Exclusive
    /\ ~lockLast.ok
    /\ LockStateOf(lockLast.pre, lockLast.cluster).readers > 0

\* C6: try_lock(cluster, Shared) succeeds iff no exclusive lock is held on
\* the cluster, whatever the number of readers; on success the reader count
\* grows by exactly one, on failure the lock table is unchanged.
C6_SharedIff ==
    (lockLast.op = "try_lock" /\ lockLast.lock_type = Shared) =>
        LET pre == LockStateOf(lockLast.pre, lockLast.cluster) IN
        /\ lockLast.ok <=> ~pre.exclusive
        /\ lockLast.ok => LockStateOf(locks, lockLast.cluster) =
                              [readers |-> pre.readers + 1, exclusive |-> FALSE]
        /\ lockLast.ok => \A c \in LockKeys \ {lockLast.cluster} :
                              LockStateOf(locks, c) = LockStateOf(lockLast.pre, c)
        /\ ~lockLast.ok => locks = lockLast.pre

\* Witness of C6: a shared try_lock succeeded on a cluster that already had
\* two readers.
C6_Witness ==
    /\ lockLast.op = "try_lock"
    /\ lockLast.lock_type = Shared
    /\ lockLast.ok
    /\ LockStateOf(lockLast.pre, lockLast.cluster).readers >= 2

\* FileLockManager::locked_count and is_locked
locked_count(l) == Cardinality(DOMAIN l)
is_locked(l, cluster) == cluster \in DOMAIN l /\ ~is_empty(l[cluster])

\* C28: unlock releases exactly one hold of the given kind and removes the
\* entry exactly when no reader and no exclusive holder is left, so that the
\* number of locked files equals the number of clusters with a lock held.
C28_UnlockReleasesOne ==
    /\ lockLast.op = "unlock" =>
          LET pre == LockStateOf(lockLast.pre, lockLast.cluster)
              post == LockStateOf(locks, lockLast.cluster)
          IN /\ lockLast.lock_type = Shared
                    => post = [readers |-> pre.readers - 1, exclusive |-> pre.exclusive]
             /\ lockLast.lock_type = Exclusive
                    => post = [readers |-> pre.readers, exclusive |-> FALSE]
             /\ (lockLast.cluster \in DOMAIN locks) <=> ~is_empty(post)
             /\ \A c \in LockKeys \ {lockLast.cluster} :
                    /\ LockStateOf(locks, c) = LockStateOf(lockLast.pre, c)
                    /\ (c \in DOMAIN locks) <=> (c \in DOMAIN lockLast.pre)
    /\ \A c \in DOMAIN locks : ~is_empty(locks[c])
    /\ locked_count(locks) = Cardinality({c \in LockKeys : is_locked(locks, c)})

\* Witness of C28: two unlocks were seen, in one state a reader left while
\* another reader stays (the entry is kept), which the last unlock shows.
C28_Witness ==
    /\ lockLast.op = "unlock"
    /\ lockLast.lock_type = Shared
    /\ LockStateOf(lockLast.pre, lockLast.cluster).readers = 2
    /\ lockLast.cluster \in DOMAIN locks
    /\ locks[lockLast.cluster].readers = 1

SharedHolders(c) ==
    {t \in Tasks : holder[t].cluster = c /\ holder[t].lock_type = Shared}

\* C29: a clone of a locked handle holds no lock: cloning leaves the lock
\* manager unchanged, closing or dropping the clone leaves it unchanged, and
\* so the lock of every handle opened with a lock stays recorded until that
\* handle itself is closed.
C29_CloneHoldsNoLock ==
    /\ lockLast.op \in {"clone", "close_clone"} => locks = lockLast.pre
    /\ \A c \in LockKeys :
          /\ ExclusiveHolders(c) # {} => LockStateOf(locks, c).exclusive
          /\ Cardinality(SharedHolders(c)) <= LockStateOf(locks, c).readers

\* Witness of C29: the clone of an exclusively locked handle was closed while
\* the original is still open, and the original's lock is still recorded.
C29_Witness ==
    /\ lockLast.op = "close_clone"
    /\ ExclusiveHolders(lockLast.cluster) # {}
    /\ LockStateOf(locks, lockLast.cluster).exclusive

\* C39: in every reachable state no cluster has the exclusive flag together
\* with a reader count above 0, no stored entry has reader count 0 and
\* exclusive false, and an unlock of a lock that is not held leaves the other
\* clusters' states unchanged and makes no counter wrap.
C39_LockTableWellFormed ==
    /\ \A c \in DOMAIN locks :
          /\ ~(locks[c].exclusive /\ locks[c].readers > 0)
          /\ ~is_empty(locks[c])
          /\ locks[c].readers >= 0
    /\ lockLast.op = "stray_unlock" =>
          /\ \A c \in LockKeys \ {lockLast.cluster} :
                /\ LockStateOf(locks, c) = LockStateOf(lockLast.pre, c)
                /\ (c \in DOMAIN locks) <=> (c \in DOMAIN lockLast.pre)
          /\ LockStateOf(locks, lockLast.cluster).readers
                <= LockStateOf(lockLast.pre, lockLast.cluster).readers

\* Witness of C39: a shared unlock, not refused by an assertion, of a cluster
\* that only an exclusive holder has locked, while another cluster has readers.
C39_Witness ==
    /\ lockLast.op = "stray_unlock"
    /\ lockLast.ok
    /\ lockLast.lock_type = Shared
    /\ LockStateOf(lockLast.pre, lockLast.cluster).exclusive
    /\ \E c \in LockKeys \ {lockLast.cluster} : LockStateOf(locks, c).readers > 0

\* The table l with one hold of kind ty on cluster c taken away.
OneHoldLess(l, c, ty) ==
    IF ty = Shared
    THEN [readers |-> LockStateOf(l, c).readers - 1, exclusive |-> LockStateOf(l, c).exclusive]
    ELSE [readers |-> LockStateOf(l, c).readers, exclusive |-> FALSE]

\* C33: the lock taken by a locked open is released by close_and_unlock on
\* that handle under the key it was taken with, whatever the handle did in
\* between, and once every locked handle is closed with close_and_unlock the
\* lock manager holds no entries.
C33_LockReleasedUnderItsKey ==
    /\ lockLast.op = "unlock"
          => /\ LockStateOf(locks, lockLast.cluster)
                    = OneHoldLess(lockLast.pre, lockLast.cluster, lockLast.lock_type)
             /\ \A c \in (LockKeys \cup {SpareCluster}) \ {lockLast.cluster} :
                    LockStateOf(locks, c) = LockStateOf(lockLast.pre, c)
    /\ (\A t \in Tasks : holder[t] = NoLock) => locks = <<>>

(***************************************************************************)
(*                       INTENT LOG (transaction.rs)                       *)
(***************************************************************************)

MAX_TRANSACTIONS == 4
TRANSACTION_MAGIC == 1415073350     \* 0x5458_4E46
TRANSACTION_VERSION == 1

\* Tasks that run with_transaction.
NumTxTasks == 1
\* Metadata sectors a transaction may name, numbered 1 .. NumSectors.
NumSectors == 2
\* Transactions begin only while the sequence counter is below this cap.
MaxSequence == 3
\* Length of TransactionEntry.affected_sectors (64 in the source, scaled).
MaxAffected == 2

TxTasks == 1..NumTxTasks
Slots == 0..(MAX_TRANSACTIONS - 1)
SectorIds == 1..NumSectors

\* `enum TransactionType` and `enum TransactionState` with their repr(u8) codes.
TransactionType ==
    {"TxNone", "FatUpdate", "DirEntryUpdate", "FsInfoUpdate",
     "FileMetadataUpdate", "ClusterChainUpdate"}
TypeCode ==
    [k \in TransactionType |->
        CASE k = "TxNone" -> 0
          [] k = "FatUpdate" -> 1
          [] k = "DirEntryUpdate" -> 2
          [] k = "FsInfoUpdate" -> 3
          [] k = "FileMetadataUpdate" -> 4
          [] k = "ClusterChainUpdate" -> 5]
TransactionType_from_u8(value) ==
    IF \E k \in TransactionType : TypeCode[k] = value
    THEN CHOOSE k \in TransactionType : TypeCode[k] = value
    ELSE None

TransactionState == {"Empty", "Pending", "InProgress", "Committed"}
StateCode ==
    [k \in TransactionState |->
        CASE k = "Empty" -> 0
          [] k = "Pending" -> 1
          [] k = "InProgress" -> 2
          [] k = "Committed" -> 3]
TransactionState_from_u8(value) ==
    IF \E k \in TransactionState : StateCode[k] = value
    THEN CHOOSE k \in TransactionState : StateCode[k] = value
    ELSE None

\* The checksum field of an entry that was never checksummed (crc32: 0).
ZeroCrc == <<0>>

\* TransactionEntry::new.  The 200-byte backup_data is one abstract value,
\* 0 standing for "all zero bytes".
TransactionEntry_new ==
    [magic |-> TRANSACTION_MAGIC, version |-> TRANSACTION_VERSION,
     tx_type |-> "TxNone", state |-> "Empty", sequence |-> 0, timestamp |-> 0,
     affected_sectors |-> [i \in 1..MaxAffected |-> 0], sector_count |-> 0,
     backup_data |-> 0, crc32 |-> ZeroCrc]

\* TransactionEntry::calculate_crc32.  CRC-32 is modelled as the tuple of the
\* bytes it digests (collision-free): the header fields, the first
\* sector_count affected sectors and the backup data.
calculate_crc32(e) ==
    <<e.magic, e.version, TypeCode[e.tx_type], StateCode[e.state], e.sequence,
      e.timestamp, e.sector_count,
      [i \in 1..e.sector_count |-> e.affected_sectors[i]], e.backup_data>>

verify_crc32(e) == e.crc32 = calculate_crc32(e)
is_valid(e) == e.magic = TRANSACTION_MAGIC /\ verify_crc32(e)

\* TransactionEntry::serialize: the 512-byte slot image, type and state as
\* their u8 codes (the 22 reserved bytes are always zero and left out).
serialize(e) ==
    [magic |-> e.magic, version |-> e.version, tx_type |-> TypeCode[e.tx_type],
     state |-> StateCode[e.state], sequence |-> e.sequence,
     timestamp |-> e.timestamp, sector_count |-> e.sector_count,
     affected_sectors |-> e.affected_sectors, backup_data |-> e.backup_data,
     crc32 |-> e.crc32]

\* TransactionEntry::deserialize: an unknown type or state byte is
\* Error::CorruptedFileSystem.
deserialize(raw) ==
    IF TransactionType_from_u8(raw.tx_type) = None
       \/ TransactionState_from_u8(raw.state) = None
    THEN [ok |-> FALSE, entry |-> TransactionEntry_new]
    ELSE [ok |-> TRUE,
          entry |-> [magic |-> raw.magic, version |-> raw.version,
                     tx_type |-> TransactionType_from_u8(raw.tx_type),
                     state |-> TransactionState_from_u8(raw.state),
                     sequence |-> raw.sequence, timestamp |-> raw.timestamp,
                     affected_sectors |-> raw.affected_sectors,
                     sector_count |-> raw.sector_count,
                     backup_data |-> raw.backup_data, crc32 |-> raw.crc32]]

\* TransactionLog::new
TransactionLog_new ==
    [sequence |-> 0, entries |-> [i \in Slots |-> TransactionEntry_new]]

\* TransactionLog::initialize: every slot image is an empty, checksummed entry.
initialize ==
    [i \in Slots |->
        serialize([TransactionEntry_new EXCEPT
                      !.crc32 = calculate_crc32(TransactionEntry_new)])]

MinOf(S) == CHOOSE x \in S : \A y \in S : x <= y
MaxOf(S) == CHOOSE x \in S : \A y \in S : x >= y

\* TransactionLog::load: read every slot; a slot that does not deserialize
\* fails the load.  The sequence continues after the highest one on disk
\* (saturating_add; the counter stays far below u32::MAX here).
load(log, disk) ==
    LET rs == [i \in Slots |-> deserialize(disk[i])] IN
    IF \E i \in Slots : ~rs[i].ok
    THEN [ok |-> FALSE, log |-> log]
    ELSE [ok |-> TRUE,
          log |-> [sequence |-> MaxOf({0} \cup {rs[i].entry.sequence : i \in Slots}) + 1,
                   entries |-> [i \in Slots |-> rs[i].entry]]]

\* Mutant of begin_transaction: the first slot is taken whatever its state.
begin_transaction_any_slot(log, tx_type, affected) ==
    LET e == [log.entries[0] EXCEPT !.tx_type = tx_type, !.state = "Pending",
                                    !.sequence = log.sequence]
    IN [found |-> TRUE, slot |-> 0,
        log |-> [sequence |-> log.sequence + 1,
                 entries |-> [log.entries EXCEPT
                                 ![0] = [e EXCEPT !.crc32 = calculate_crc32(e)]]]]

\* TransactionLog::begin_transaction: the first Empty slot becomes Pending.
\* backup_data is not touched.  (wrapping_add: see load.)
begin_transaction(log, tx_type, affected) ==
    LET empty == {i \in Slots : log.entries[i].state = "Empty"} IN
    IF empty = {}
    THEN [found |-> FALSE, slot |-> 0, log |-> log]
    ELSE LET slot == MinOf(empty)
             count == IF Len(affected) < MaxAffected THEN Len(affected) ELSE MaxAffected
             filled == [log.entries[slot] EXCEPT
                           !.tx_type = tx_type,
                           !.state = "Pending",
                           !.sequence = log.sequence,
                           !.timestamp = 0,
                           !.sector_count = count,
                           !.affected_sectors =
                               [i \in 1..MaxAffected |->
                                   IF i <= count THEN affected[i] ELSE @[i]]]
         IN [found |-> TRUE, slot |-> slot,
             log |-> [sequence |-> log.sequence + 1,
                      entries |-> [log.entries EXCEPT
                                      ![slot] = [filled EXCEPT
                                                    !.crc32 = calculate_crc32(filled)]]]]

\* Mutant of write_intent: nothing is written.
write_intent_skipped(log, disk, slot) == disk

\* TransactionLog::write_intent: the slot's image goes to its log sector.
write_intent(log, disk, slot) ==
    IF slot >= MAX_TRANSACTIONS THEN disk
    ELSE [disk EXCEPT ![slot] = serialize(log.entries[slot])]

\* Mutant of mark_in_progress: the state is left as it is.
mark_in_progress_skipped(log, slot) == log

\* TransactionLog::mark_in_progress: in memory only.
mark_in_progress(log, slot) ==
    IF slot < MAX_TRANSACTIONS
    THEN LET e == [log.entries[slot] EXCEPT !.state = "InProgress"] IN
         [log EXCEPT !.entries[slot] = [e EXCEPT !.crc32 = calculate_crc32(e)]]
    ELSE log

\* TransactionLog::commit
commit(log, disk, slot) ==
    IF slot >= MAX_TRANSACTIONS THEN [log |-> log, disk |-> disk]
    ELSE LET e == [log.entries[slot] EXCEPT !.state = "Committed"]
             c == [e EXCEPT !.crc32 = calculate_crc32(e)]
         IN [log |-> [log EXCEPT !.entries[slot] = c],
             disk |-> [disk EXCEPT ![slot] = serialize(c)]]

\* Mutant of clear: the empty entry is written to disk but the in-memory
\* slot is left as it was.
clear_disk_only(log, disk, slot) ==
    IF slot >= MAX_TRANSACTIONS THEN [log |-> log, disk |-> disk]
    ELSE LET entry == [TransactionEntry_new EXCEPT
                          !.crc32 = calculate_crc32(TransactionEntry_new)]
         IN [log |-> log, disk |-> [disk EXCEPT ![slot] = serialize(entry)]]

\* TransactionLog::clear: a fresh checksummed empty entry on disk and in memory.
clear(log, disk, slot) ==
    IF slot >= MAX_TRANSACTIONS THEN [log |-> log, disk |-> disk]
    ELSE LET entry == [TransactionEntry_new EXCEPT
                          !.crc32 = calculate_crc32(TransactionEntry_new)]
         IN [log |-> [log EXCEPT !.entries[slot] = entry],
             disk |-> [disk EXCEPT ![slot] = serialize(entry)]]

\* Mutant of get_incomplete_transactions: Pending slots are overlooked.
get_incomplete_only_in_progress(log) ==
    {i \in Slots : is_valid(log.entries[i]) /\ log.entries[i].state = "InProgress"}

\* TransactionLog::get_incomplete_transactions (the slot indices it yields).
get_incomplete_transactions(log) ==
    {i \in Slots : /\ is_valid(log.entries[i])
                   /\ log.entries[i].state \in {"Pending", "InProgress"}}

\* The recovery pass of mount (spec 4.13): every valid Pending or InProgress
\* slot is recovered and cleared, every valid Committed slot is cleared, an
\* invalid slot is left alone.  For the idempotent kinds modelled here the
\* pass writes nothing to the target sectors.
RecoverySlots(log) ==
    get_incomplete_transactions(log)
        \cup {i \in Slots : is_valid(log.entries[i]) /\ log.entries[i].state = "Committed"}

RECURSIVE ClearAll(_, _, _)
ClearAll(log, disk, todo) ==
    IF todo = {} THEN [log |-> log, disk |-> disk]
    ELSE LET r == clear(log, disk, MinOf(todo)) IN
         ClearAll(r.log, r.disk, todo \ {MinOf(todo)})

recover(log, disk) == ClearAll(log, disk, RecoverySlots(log))

\* transaction_statistics().used_slots
used_slots(log) == Cardinality({i \in Slots : log.entries[i].state # "Empty"})

\* The transaction kinds the callers use, and the sector lists they name:
\* one sector, or a sector and its neighbour.
TxKinds == {"FatUpdate", "DirEntryUpdate"}
SectorLists ==
    {<<x>> : x \in SectorIds} \cup {<<x, x + 1>> : x \in 1..(NumSectors - 1)}
SectorsOf(affected) == {affected[i] : i \in 1..Len(affected)}

NoTx == [kind |-> "TxNone", affected |-> <<>>]
Log == [sequence |-> sequence, entries |-> entries]

\* txCrash when no power loss is being recovered from.
NoCrash ==
    [pc |-> [t \in TxTasks |-> "idle"], slot |-> [t \in TxTasks |-> 0],
     args |-> [t \in TxTasks |-> NoTx], sectors |-> [x \in SectorIds |-> 0]]

\* A formatted volume with an initialized log, mounted: the log is loaded
\* and the recovery pass has found nothing to do.
InitTxnVars ==
    /\ logDisk = initialize
    /\ entries = load(TransactionLog_new, initialize).log.entries
    /\ sequence = load(TransactionLog_new, initialize).log.sequence
    /\ sectors = [x \in SectorIds |-> 1]
    /\ mounted = TRUE
    /\ txPc = [t \in TxTasks |-> "idle"]
    /\ txSlot = [t \in TxTasks |-> 0]
    /\ txArgs = [t \in TxTasks |-> NoTx]
    /\ txCrash = NoCrash
    /\ txRecovered = TRUE

\* with_transaction, step 1: choose an Empty slot and fill it.  With no
\* Empty slot the call fails and nothing is logged.
WithTransaction_Begin(t, kind, affected) ==
    /\ mounted
    /\ txPc[t] \in {"idle", "returned"}
    /\ sequence < MaxSequence
    /\ LET r == begin_transaction(Log, kind, affected) IN
        /\ entries' = r.log.entries
        /\ sequence' = r.log.sequence
        /\ txPc' = [txPc EXCEPT ![t] = IF r.found THEN "begun" ELSE "idle"]
        /\ txSlot' = [txSlot EXCEPT ![t] = r.slot]
        /\ txArgs' = [txArgs EXCEPT ![t] =
                         IF r.found THEN [kind |-> kind, affected |-> affected] ELSE NoTx]
    /\ txRecovered' = FALSE
    /\ txCrash' = NoCrash
    /\ UNCHANGED <<logDisk, sectors, mounted>>
    /\ UNCHANGED <<lockVars, fileVars, cacheVars, logGhostVars, bitmapVars, dirCacheVars, pageVars, checkpointVars, createVars>>

\* step 2: write the slot and flush.
WithTransaction_WriteIntent(t) ==
    /\ mounted
    /\ txPc[t] = "begun"
    /\ logDisk' = write_intent(Log, logDisk, txSlot[t])
    /\ txPc' = [txPc EXCEPT ![t] = "intent"]
    /\ txRecovered' = FALSE
    /\ UNCHANGED <<entries, sequence, sectors, mounted, txSlot, txArgs, txCrash>>
    /\ UNCHANGED <<lockVars, fileVars, cacheVars, logGhostVars, bitmapVars, dirCacheVars, pageVars, checkpointVars, createVars>>

\* step 3: the slot becomes InProgress (in memory), then the bracketed
\* operation performs its writes; every sector it named gets new contents
\* (1 <-> 2).
WithTransaction_Op(t) ==
    /\ mounted
    /\ txPc[t] = "intent"
    /\ entries' = mark_in_progress(Log, txSlot[t]).entries
    /\ sectors' = [x \in SectorIds |->
                      IF x \in SectorsOf(txArgs[t].affected)
                      THEN 3 - sectors[x] ELSE sectors[x]]
    /\ txPc' = [txPc EXCEPT ![t] = "mutated"]
    /\ txRecovered' = FALSE
    /\ UNCHANGED <<sequence, logDisk, mounted, txSlot, txArgs, txCrash>>
    /\ UNCHANGED <<lockVars, fileVars, cacheVars, logGhostVars, bitmapVars, dirCacheVars, pageVars, checkpointVars, createVars>>

\* step 4: the slot becomes Committed, written and flushed.
WithTransaction_Commit(t) ==
    /\ mounted
    /\ txPc[t] = "mutated"
    /\ LET r == commit(Log, logDisk, txSlot[t]) IN
        /\ entries' = r.log.entries
        /\ logDisk' = r.disk
    /\ txPc' = [txPc EXCEPT ![t] = "committed"]
    /\ txRecovered' = FALSE
    /\ UNCHANGED <<sequence, sectors, mounted, txSlot, txArgs, txCrash>>
    /\ UNCHANGED <<lockVars, fileVars, cacheVars, logGhostVars, bitmapVars, dirCacheVars, pageVars, checkpointVars, createVars>>

\* step 5: the slot goes back to Empty, written and flushed; the call returns.
WithTransaction_Clear(t) ==
    /\ mounted
    /\ txPc[t] = "committed"
    /\ LET r == clear(Log, logDisk, txSlot[t]) IN
        /\ entries' = r.log.entries
        /\ logDisk' = r.disk
    /\ txPc' = [txPc EXCEPT ![t] = "returned"]
    /\ txArgs' = [txArgs EXCEPT ![t] = NoTx]
    /\ txRecovered' = FALSE
    /\ UNCHANGED <<sequence, sectors, mounted, txSlot, txCrash>>
    /\ UNCHANGED <<lockVars, fileVars, cacheVars, logGhostVars, bitmapVars, dirCacheVars, pageVars, checkpointVars, createVars>>

\* Power loss or forced abort of the whole process: memory is gone, the
\* device keeps what was written.  txCrash remembers what was interrupted.
Crash ==
    /\ mounted
    /\ mounted' = FALSE
    /\ entries' = TransactionLog_new.entries
    /\ sequence' = TransactionLog_new.sequence
    /\ txCrash' = [pc |-> txPc, slot |-> txSlot, args |-> txArgs, sectors |-> sectors]
    /\ txPc' = [t \in TxTasks |-> "idle"]
    /\ txSlot' = [t \in TxTasks |-> 0]
    /\ txArgs' = [t \in TxTasks |-> NoTx]
    /\ txRecovered' = FALSE
    /\ UNCHANGED <<logDisk, sectors>>
    /\ UNCHANGED <<lockVars, fileVars, cacheVars, logGhostVars, bitmapVars, dirCacheVars, pageVars, checkpointVars, createVars>>

\* Mount with transactions enabled (spec 4.12 step 5): load the log and run
\* the recovery pass.  A log that does not load fails the mount.
Mount ==
    /\ ~mounted
    /\ LET l == load(TransactionLog_new, logDisk)
           r == recover(l.log, logDisk)
       IN IF l.ok
          THEN /\ entries' = r.log.entries
               /\ sequence' = r.log.sequence
               /\ logDisk' = r.disk
               /\ mounted' = TRUE
               /\ txRecovered' = TRUE
          ELSE UNCHANGED <<entries, sequence, logDisk, mounted, txRecovered>>
    /\ UNCHANGED <<sectors, txPc, txSlot, txArgs, txCrash>>
    /\ UNCHANGED <<lockVars, fileVars, cacheVars, logGhostVars, bitmapVars, dirCacheVars, pageVars, checkpointVars, createVars>>

NextTxn ==
    \/ \E t \in TxTasks, kind \in TxKinds, affected \in SectorLists :
           WithTransaction_Begin(t, kind, affected)
    \/ \E t \in TxTasks : WithTransaction_WriteIntent(t)
    \/ \E t \in TxTasks : WithTransaction_Op(t)
    \/ \E t \in TxTasks : WithTransaction_Commit(t)
    \/ \E t \in TxTasks : WithTransaction_Clear(t)
    \/ Crash
    \/ Mount

\* ---- claims about the intent log ----

TxInFlight == {t \in TxTasks : txPc[t] \in {"begun", "intent", "mutated", "committed"}}

\* What a mount would do with the log as it is on the device now.
RemountNow == recover(load(TransactionLog_new, logDisk).log, logDisk)

\* C2: when with_transaction has completed, the slot it used is Empty in
\* memory and on the device, the number of used slots is back to the number
\* of calls still in flight (what it was before the call), and a recovery
\* pass run afterwards leaves that slot alone; with no other call in flight
\* it finds nothing to recover and changes nothing in the log.
C2_SlotEmptyAfterCommit ==
    \A t \in TxTasks :
        (/\ mounted
         /\ txPc[t] = "returned"
         /\ \A u \in TxInFlight : txSlot[u] # txSlot[t])
        => /\ entries[txSlot[t]].state = "Empty"
           /\ deserialize(logDisk[txSlot[t]]).ok
           /\ deserialize(logDisk[txSlot[t]]).entry.state = "Empty"
           /\ is_valid(deserialize(logDisk[txSlot[t]]).entry)
           /\ used_slots(Log) = Cardinality(TxInFlight)
           /\ load(TransactionLog_new, logDisk).ok
           /\ RemountNow.disk[txSlot[t]] = logDisk[txSlot[t]]
           /\ TxInFlight = {} =>
                 /\ RecoverySlots(load(TransactionLog_new, logDisk).log) = {}
                 /\ RemountNow.disk = logDisk
                 /\ RemountNow.log.entries = entries

\* Witness of C2: a with_transaction call has returned after its operation
\* changed the sectors it named.
C2_Witness ==
    \E t \in TxTasks :
        /\ mounted
        /\ txPc[t] = "returned"
        /\ TxInFlight = {}
        /\ \E x \in SectorIds : sectors[x] = 2

ClusterSize == 2
\* Number of FAT entries (and of bitmap bits): clusters 2 .. TotalClusters-1.
TotalClusters == 9
\* Largest buffer passed to read or write.
MaxBuf == 4
\* const MAX_FILE_SIZE (u32::MAX in the source), scaled to the volume.
MAX_FILE_SIZE == 7
\* const MAX_CONTIGUOUS_BATCH (256 in the source), scaled to the volume.
MAX_CONTIGUOUS_BATCH == 2

RESERVED_FAT_ENTRIES == 2
Clusters == RESERVED_FAT_ENTRIES..(TotalClusters - 1)
FatEntries == 0..(TotalClusters - 1)

\* FatValue as a number: Free, EndOfChain, or Data(n) written as n >= 2.
\* Option<u32> of a cluster: NoCluster is None.
FatFree == 0
EndOfChain == 1
NoCluster == 0

Min(a, b) == IF a < b THEN a ELSE b

\* ClusterIterator::next from cluster c: its Data successor, or None at the
\* end of the chain.
cluster_iter_next(f, c) == IF f[c] >= RESERVED_FAT_ENTRIES THEN f[c] ELSE NoCluster

\* The clusters of the chain that starts at `first`, in order.
RECURSIVE ChainFrom(_, _, _)
ChainFrom(f, c, fuel) ==
    IF c = NoCluster \/ fuel = 0 THEN <<>>
    ELSE <<c>> \o ChainFrom(f, cluster_iter_next(f, c), fuel - 1)
Chain(f, first) == ChainFrom(f, first, TotalClusters)
ChainSet(f, first) == {Chain(f, first)[i] : i \in 1..Len(Chain(f, first))}

\* ---- ClusterBitmap ----

\* ClusterBitmap::new
ClusterBitmap_new(total_clusters) ==
    [bits |-> [c \in 0..(total_clusters - 1) |-> FALSE],
     total_clusters |-> total_clusters, next_free_hint |-> 0,
     free_count |-> total_clusters, dirty |-> FALSE]

\* ClusterBitmap::is_free
is_free(b, cluster) ==
    IF cluster >= b.total_clusters THEN FALSE ELSE ~b.bits[cluster]

is_allocated(b, cluster) == ~is_free(b, cluster)

\* ClusterBitmap::set_allocated
set_allocated(b, cluster) ==
    IF cluster >= b.total_clusters THEN b
    ELSE [b EXCEPT !.free_count = IF is_free(b, cluster)
                                  THEN (IF @ > 0 THEN @ - 1 ELSE 0) ELSE @,
                   !.bits[cluster] = TRUE,
                   !.dirty = TRUE]

\* Mutant of set_free: the bit is left set.
set_free_keeps_bit(b, cluster) ==
    IF cluster >= b.total_clusters THEN b
    ELSE [b EXCEPT !.free_count = IF is_allocated(b, cluster) THEN @ + 1 ELSE @,
                   !.dirty = TRUE,
                   !.next_free_hint = IF cluster < @ THEN cluster ELSE @]

\* ClusterBitmap::set_free
set_free(b, cluster) ==
    IF cluster >= b.total_clusters THEN b
    ELSE [b EXCEPT !.free_count = IF is_allocated(b, cluster) THEN @ + 1 ELSE @,
                   !.bits[cluster] = FALSE,
                   !.dirty = TRUE,
                   !.next_free_hint = IF cluster < @ THEN cluster ELSE @]

\* Bits per byte of the bitmap (cluster / 8, cluster % 8; 8 in the source),
\* scaled so that a small bitmap still spans several bytes.
BitsPerByte == 4
\* u32::MAX for cluster numbers, scaled to the volume.
ClusterU32Max == 15

\* self.bitmap.len(): ClusterBitmap::new allocates (total_clusters + 7) / 8 bytes.
bitmap_len(b) == (b.total_clusters + BitsPerByte - 1) \div BitsPerByte

\* ClusterBitmap::find_free_in_range: the bytes start/8 .. min((end+7)/8, len)
\* are scanned in order, and in each the bits in [start, end); the first clear
\* bit below total_clusters is returned, -1 stands for None.  end + 7 is a u32
\* addition: it wraps here as in a build without overflow checks.
find_free_in_range(b, start, end) ==
    LET start_byte == start \div BitsPerByte
        end_byte == Min(((end + BitsPerByte - 1) % (ClusterU32Max + 1)) \div BitsPerByte,
                        bitmap_len(b))
        free == {c \in 0..(b.total_clusters - 1) :
                    /\ c \div BitsPerByte >= start_byte
                    /\ c \div BitsPerByte < end_byte
                    /\ c >= start /\ c < end
                    /\ ~b.bits[c]}
    IN IF free = {} THEN -1 ELSE MinOf(free)

\* ClusterBitmap::find_free: [found, cluster, bitmap]; a search from 0 starts
\* at the hint, and an exhausted search wraps to the start of the bitmap.
find_free(b, start_cluster) ==
    LET search_start == IF start_cluster = 0 THEN b.next_free_hint ELSE start_cluster
        fwd == find_free_in_range(b, search_start, b.total_clusters)
        wrap == find_free_in_range(b, 0, search_start)
    IN IF fwd >= 0
       THEN [found |-> TRUE, cluster |-> fwd,
             bitmap |-> [b EXCEPT !.next_free_hint = fwd + 1]]
       ELSE IF search_start > 0 /\ wrap >= 0
            THEN [found |-> TRUE, cluster |-> wrap,
                  bitmap |-> [b EXCEPT !.next_free_hint = wrap + 1]]
            ELSE [found |-> FALSE, cluster |-> NoCluster, bitmap |-> b]

\* The build has overflow checks and find_free(start_cluster) reaches the u32
\* addition end + 7 with a sum above u32::MAX: the call panics.
find_free_overflows(b, start_cluster) ==
    LET search_start == IF start_cluster = 0 THEN b.next_free_hint ELSE start_cluster
    IN /\ find_free_in_range(b, search_start, b.total_clusters) < 0
       /\ search_start > 0
       /\ search_start + BitsPerByte - 1 > ClusterU32Max

\* The loop of find_contiguous_free from `cluster` on, with the run found so
\* far (run_start = -1 is None).
RECURSIVE contiguous_scan(_, _, _, _, _)
contiguous_scan(b, cluster, run_start, run_length, count) ==
    IF cluster >= b.total_clusters THEN -1
    ELSE IF is_free(b, cluster)
         THEN IF (IF run_start = -1 THEN 1 ELSE run_length + 1) >= count
              THEN (IF run_start = -1 THEN cluster ELSE run_start)
              ELSE contiguous_scan(b, cluster + 1,
                                   IF run_start = -1 THEN cluster ELSE run_start,
                                   IF run_start = -1 THEN 1 ELSE run_length + 1, count)
         ELSE contiguous_scan(b, cluster + 1, -1, 0, count)

\* ClusterBitmap::find_contiguous_free: the first cluster of the run, -1 for None.
find_contiguous_free(b, count, start_cluster) ==
    IF count = 0 \/ count > b.free_count THEN -1
    ELSE contiguous_scan(b, start_cluster, -1, 0, count)

\* ClusterBitmap::build_from_fat: every bit cleared, then one sweep over the
\* entries RESERVED_FAT_ENTRIES .. total_clusters-1.
build_from_fat(b, f, total_clusters) ==
    [b EXCEPT
        !.bits = [c \in DOMAIN b.bits |->
                     /\ c >= RESERVED_FAT_ENTRIES
                     /\ c < total_clusters
                     /\ f[c] # FatFree],
        !.free_count = Cardinality({c \in RESERVED_FAT_ENTRIES..(total_clusters - 1) :
                                       f[c] = FatFree}),
        !.next_free_hint = RESERVED_FAT_ENTRIES,
        !.dirty = FALSE]

\* ---- FAT chain operations of the FileSystem (spec 4.6, 4.7) ----

\* alloc_cluster(prev): locate a free cluster C with the bitmap, mark it
\* EndOfChain, link prev -> Data(C) when there is a prev, update the bitmap.
alloc_cluster(f, b, prev) ==
    LET r == find_free(b, 0) IN
    IF ~r.found
    THEN [ok |-> FALSE, cluster |-> NoCluster, fat |-> f, bitmap |-> b]
    ELSE [ok |-> TRUE, cluster |-> r.cluster,
          fat |-> [e \in FatEntries |->
                      IF e = r.cluster THEN EndOfChain
                      ELSE IF prev # NoCluster /\ e = prev THEN r.cluster
                      ELSE f[e]],
          bitmap |-> set_allocated(r.bitmap, r.cluster)]

\* free_cluster_chain(c): walk the chain from c, mark every entry Free and
\* clear its bit.
RECURSIVE FreeChain(_, _, _, _)
FreeChain(f, b, c, fuel) ==
    IF c = NoCluster \/ fuel = 0 THEN [fat |-> f, bitmap |-> b]
    ELSE FreeChain([f EXCEPT ![c] = FatFree], set_free(b, c),
                   cluster_iter_next(f, c), fuel - 1)
free_cluster_chain(f, b, c) == FreeChain(f, b, c, TotalClusters)

\* truncate_cluster_chain(c): c becomes the tail (EndOfChain) and the rest of
\* the chain is freed.
truncate_cluster_chain(f, b, c) ==
    free_cluster_chain([f EXCEPT ![c] = EndOfChain], b, cluster_iter_next(f, c))

\* clusters_from_bytes / bytes_from_clusters of the FileSystem.
clusters_from_bytes(bytes) == (bytes + ClusterSize - 1) \div ClusterSize
bytes_from_clusters(n) == n * ClusterSize

\* ---- the device's data region ----

\* A read of n bytes at byte `off` of cluster `start`, running on into the
\* clusters that follow it on the device.  The device transfers all it is
\* asked for.
DiskRead(d, start, off, n) ==
    [k \in 1..n |-> d[start + ((off + k - 1) \div ClusterSize)]
                     [(off + k - 1) % ClusterSize]]

\* A write of the bytes `buf` at byte `off` of cluster `start`.
DiskWrite(d, start, off, buf) ==
    [c \in Clusters |->
        [i \in 0..(ClusterSize - 1) |->
            LET a == (c - start) * ClusterSize + i - off IN
            IF c >= start /\ a >= 0 /\ a < Len(buf) THEN buf[a + 1] ELSE d[c][i]]]

\* The bytes a caller writes at file position `at`: position p carries p + 1.
BufAt(at, n) == [k \in 1..n |-> at + k]

\* ---- multi_cluster_io.rs ----

\* Mutant of check_contiguous_run: the successor is not compared with
\* current + 1.
RECURSIVE RunAnySuccessor(_, _, _, _)
RunAnySuccessor(f, current, count, max_clusters) ==
    IF count < max_clusters /\ count < MAX_CONTIGUOUS_BATCH
    THEN LET next_cluster == cluster_iter_next(f, current) IN
         IF next_cluster # NoCluster
         THEN RunAnySuccessor(f, next_cluster, count + 1, max_clusters)
         ELSE count
    ELSE count
check_run_any_successor(f, start_cluster, max_clusters) ==
    RunAnySuccessor(f, start_cluster, 1, max_clusters)

\* check_contiguous_run: the loop, then the function.
RECURSIVE ContiguousRun(_, _, _, _)
ContiguousRun(f, current, count, max_clusters) ==
    IF count < max_clusters /\ count < MAX_CONTIGUOUS_BATCH
    THEN LET next_cluster == cluster_iter_next(f, current) IN
         IF next_cluster # NoCluster /\ next_cluster = current + 1
         THEN ContiguousRun(f, next_cluster, count + 1, max_clusters)
         ELSE count
    ELSE count
check_contiguous_run(f, start_cluster, max_clusters) ==
    ContiguousRun(f, start_cluster, 1, max_clusters)

clusters_needed(bytes, cluster_size) == (bytes + cluster_size - 1) \div cluster_size

\* The transfer size read_contiguous and write_contiguous both compute.
ContiguousSize(f, start_cluster, offset_in_cluster, buf_len) ==
    LET bytes_from_first_cluster == ClusterSize - offset_in_cluster
        remaining_bytes == IF buf_len > bytes_from_first_cluster
                           THEN buf_len - bytes_from_first_cluster ELSE 0
        total_clusters_needed == 1 + clusters_needed(remaining_bytes, ClusterSize)
        contiguous_count == check_contiguous_run(f, start_cluster, total_clusters_needed)
        max_bytes == IF contiguous_count = 1 THEN bytes_from_first_cluster
                     ELSE bytes_from_first_cluster + (contiguous_count - 1) * ClusterSize
    IN Min(buf_len, max_bytes)

\* read_contiguous: the bytes of one device read.
read_contiguous(f, d, start_cluster, offset_in_cluster, buf_len) ==
    DiskRead(d, start_cluster, offset_in_cluster,
             ContiguousSize(f, start_cluster, offset_in_cluster, buf_len))

\* write_contiguous: the bytes written and the data region afterwards.
write_contiguous(f, d, start_cluster, offset_in_cluster, buf) ==
    LET write_size == ContiguousSize(f, start_cluster, offset_in_cluster, Len(buf)) IN
    [written |-> write_size,
     data |-> DiskWrite(d, start_cluster, offset_in_cluster, SubSeq(buf, 1, write_size))]

\* ---- file.rs ----

\* DirEntryEditor of the open file: the size and first-cluster fields and the
\* dirty bit every setter raises (spec 4.9).
DirEntryEditor(size, first_cluster) ==
    [size |-> size, first_cluster |-> first_cluster, dirty |-> FALSE]

\* File::new: the handle a directory entry opens to.  The checkpoint table is
\* left out: a checkpoint is recorded only at cluster index 8 and beyond, and
\* chains stay shorter than that here.
File_new(first_cluster, entry) ==
    [first_cluster |-> first_cluster, current_cluster |-> NoCluster,
     offset |-> 0, entry |-> entry]

saturating_sub(a, b) == IF a > b THEN a - b ELSE 0

\* The cluster to use when the offset is on a cluster boundary ("next
\* cluster"), else the current one: read 495-510, write 655-670 and 749-761.
NextOrCurrent(c, f) ==
    IF c.offset % ClusterSize = 0
    THEN IF c.current_cluster = NoCluster THEN c.first_cluster
         ELSE cluster_iter_next(f, c.current_cluster)
    ELSE c.current_cluster

\* The cluster-index arithmetic of the multi-cluster paths.
old_cluster_index(old_offset) ==
    IF old_offset = 0 THEN 0 ELSE saturating_sub(old_offset \div ClusterSize, 1)
new_cluster_index(new_offset) ==
    IF new_offset > 0 /\ new_offset % ClusterSize = 0
    THEN saturating_sub(new_offset \div ClusterSize, 1)
    ELSE new_offset \div ClusterSize
cluster_delta(old_offset, new_offset) ==
    saturating_sub(new_cluster_index(new_offset), old_cluster_index(old_offset))

\* `for _i in 0..cluster_delta`: follow the chain, stopping early at its end.
RECURSIVE WalkChain(_, _, _)
WalkChain(f, cluster, steps) ==
    IF steps = 0 THEN cluster
    ELSE IF cluster_iter_next(f, cluster) = NoCluster THEN cluster
    ELSE WalkChain(f, cluster_iter_next(f, cluster), steps - 1)

\* update_dir_entry_after_write, given the context with its new offset.
update_dir_entry_after_write(c) ==
    [c EXCEPT !.entry.dirty = TRUE,
              !.entry.size = IF c.offset > @ THEN c.offset ELSE @]

\* File::read with a buffer of n bytes (update_accessed_date off).  The
\* result carries the new context, the count returned, the bytes handed to
\* the caller, the path taken, and the device transfer (start cluster, byte
\* in it, length).
read(c, f, d, n) ==
    LET current_cluster == NextOrCurrent(c, f)
        offset_in_cluster == c.offset % ClusterSize
        bytes_left_in_file == c.entry.size - c.offset
        nothing == [ctx |-> c, ret |-> 0, bytes |-> <<>>, path |-> "none",
                    start |-> NoCluster, off |-> 0, io |-> 0]
    IN
    IF current_cluster = NoCluster THEN nothing
    ELSE IF n > ClusterSize - offset_in_cluster
    THEN LET got == read_contiguous(f, d, current_cluster, offset_in_cluster, n)
             read_bytes == Min(Len(got), bytes_left_in_file)
             new_offset == c.offset + read_bytes
             delta == cluster_delta(c.offset, new_offset)
         IN [ctx |-> [c EXCEPT !.offset = new_offset,
                               !.current_cluster =
                                   IF delta > 0 THEN WalkChain(f, current_cluster, delta)
                                   ELSE current_cluster],
             ret |-> read_bytes, bytes |-> SubSeq(got, 1, read_bytes),
             path |-> "multi", start |-> current_cluster,
             off |-> offset_in_cluster, io |-> Len(got)]
    ELSE LET read_size == Min(Min(n, ClusterSize - offset_in_cluster), bytes_left_in_file)
         IN IF read_size = 0 THEN nothing
            ELSE [ctx |-> [c EXCEPT !.offset = c.offset + read_size,
                                    !.current_cluster = current_cluster],
                  ret |-> read_size,
                  bytes |-> DiskRead(d, current_cluster, offset_in_cluster, read_size),
                  path |-> "single", start |-> current_cluster,
                  off |-> offset_in_cluster, io |-> read_size]

\* Mutant of bytes_left_until_max_file_size: the cap is not applied.
bytes_left_uncapped(c) == MaxBuf

\* bytes_left_until_max_file_size of File::write.
bytes_left_until_max_file_size(c) == MAX_FILE_SIZE - c.offset

\* File::write of the n bytes the caller has for the current position.  The
\* result carries the new context, FAT, data region and bitmap, the count
\* returned (err names a failure), the path taken and the device transfer.
write(c, f, d, b, n) ==
    LET offset_in_cluster == c.offset % ClusterSize
        buf == BufAt(c.offset, n)
        write_cluster == NextOrCurrent(c, f)
        nothing == [ctx |-> c, fat |-> f, data |-> d, bitmap |-> b, ret |-> 0,
                    err |-> None, path |-> "none", dirtied |-> FALSE,
                    start |-> NoCluster, off |-> 0, io |-> 0]
    IN
    IF n = 0 \/ bytes_left_until_max_file_size(c) = 0 THEN nothing
    ELSE IF offset_in_cluster = 0 /\ n >= ClusterSize /\ write_cluster # NoCluster
    THEN \* multi-cluster write over clusters that are already allocated
         LET w == write_contiguous(f, d, write_cluster, offset_in_cluster, buf)
             written_bytes == Min(w.written, bytes_left_until_max_file_size(c))
             new_offset == c.offset + written_bytes
             delta == cluster_delta(c.offset, new_offset)
             moved == [c EXCEPT !.offset = new_offset,
                                !.current_cluster =
                                    IF delta > 0 THEN WalkChain(f, write_cluster, delta)
                                    ELSE @]
         IN [nothing EXCEPT !.ctx = update_dir_entry_after_write(moved),
                            !.data = w.data, !.ret = written_bytes,
                            !.path = "multi", !.dirtied = TRUE,
                            !.start = write_cluster, !.off = offset_in_cluster,
                            !.io = w.written]
    ELSE \* single-cluster write, allocating at the end of the chain
         LET write_size == Min(Min(n, ClusterSize - offset_in_cluster),
                               bytes_left_until_max_file_size(c))
             must_alloc == c.offset % ClusterSize = 0 /\ write_cluster = NoCluster
             a == alloc_cluster(f, b, c.current_cluster)
             current_cluster == IF must_alloc THEN a.cluster ELSE write_cluster
             opened == IF must_alloc /\ c.first_cluster = NoCluster
                       THEN [c EXCEPT !.first_cluster = a.cluster,
                                      !.entry.first_cluster = a.cluster,
                                      !.entry.dirty = TRUE]
                       ELSE c
             moved == [opened EXCEPT !.offset = c.offset + write_size,
                                     !.current_cluster = current_cluster]
         IN IF must_alloc /\ ~a.ok
            THEN [nothing EXCEPT !.err = "NotEnoughSpace", !.dirtied = TRUE]
            ELSE IF current_cluster = NoCluster
            THEN [nothing EXCEPT !.err = "panic", !.dirtied = TRUE]
            ELSE [ctx |-> update_dir_entry_after_write(moved),
                  fat |-> IF must_alloc THEN a.fat ELSE f,
                  data |-> DiskWrite(d, current_cluster, offset_in_cluster,
                                     SubSeq(buf, 1, write_size)),
                  bitmap |-> IF must_alloc THEN a.bitmap ELSE b,
                  ret |-> write_size, err |-> None, path |-> "single",
                  dirtied |-> TRUE, start |-> current_cluster,
                  off |-> offset_in_cluster, io |-> write_size]

\* Mutant of write_failing: the size in the editor is updated although the
\* write failed.
write_failing_updates_size(c, f, b, stage) ==
    [ctx |-> [c EXCEPT !.entry.size = c.offset + 1, !.entry.dirty = TRUE],
     fat |-> f, bitmap |-> b]

\* File::write of a buffer that is not empty, returning an error.  stage "alloc":
\* alloc_cluster fails before it changed anything; stage "device": the seek
\* or the write of the data fails (a failing write_contiguous falls through
\* to the single-cluster path, which then fails the same way), after the
\* cluster was allocated when one was needed.  The result carries what the
\* call leaves behind.
write_failing(c, f, b, stage) ==
    LET write_cluster == NextOrCurrent(c, f)
        must_alloc == c.offset % ClusterSize = 0 /\ write_cluster = NoCluster
        a == alloc_cluster(f, b, c.current_cluster)
        opened == IF c.first_cluster = NoCluster
                  THEN [c EXCEPT !.first_cluster = a.cluster,
                                 !.entry.first_cluster = a.cluster,
                                 !.entry.dirty = TRUE]
                  ELSE c
    IN IF stage = "device" /\ must_alloc /\ a.ok
       THEN [ctx |-> opened, fat |-> a.fat, bitmap |-> a.bitmap]
       ELSE [ctx |-> c, fat |-> f, bitmap |-> b]

\* The chain walk of seek: `skip` steps from `cluster`, or short of that when
\* the chain ends after i steps.
RECURSIVE SeekWalk(_, _, _, _)
SeekWalk(f, cluster, i, skip) ==
    IF i >= skip THEN [cluster |-> cluster, short |-> FALSE, i |-> i]
    ELSE IF cluster_iter_next(f, cluster) = NoCluster
    THEN [cluster |-> cluster, short |-> TRUE, i |-> i]
    ELSE SeekWalk(f, cluster_iter_next(f, cluster), i + 1, skip)

\* The target of a seek before it is narrowed to the u32 offset.
SeekTarget(c, whence, x) ==
    CASE whence = "Start" -> x
      [] whence = "Current" -> c.offset + x
      [] OTHER -> c.entry.size + x

\* new_offset_opt of File::seek, NoOffset for None (the target is negative
\* or does not fit in the u32 offset).
NoOffset == -1
new_offset_opt(c, whence, x) ==
    IF SeekTarget(c, whence, x) < 0 \/ SeekTarget(c, whence, x) > MAX_FILE_SIZE
    THEN NoOffset ELSE SeekTarget(c, whence, x)

\* File::seek once the target pos is known.
seek(c, f, pos) ==
    LET new_offset == Min(pos, c.entry.size)
        new_offset_in_clusters == clusters_from_bytes(new_offset)
        old_offset_in_clusters == clusters_from_bytes(c.offset)
        w == SeekWalk(f, c.first_cluster, 0, new_offset_in_clusters - 1)
    IN
    IF new_offset = c.offset THEN c
    ELSE IF new_offset = 0
    THEN [c EXCEPT !.offset = 0, !.current_cluster = NoCluster]
    ELSE IF new_offset_in_clusters = old_offset_in_clusters
    THEN [c EXCEPT !.offset = new_offset]
    ELSE IF c.first_cluster # NoCluster
    THEN [c EXCEPT !.offset = IF w.short THEN bytes_from_clusters(w.i + 1)
                              ELSE new_offset,
                   !.current_cluster = w.cluster]
    ELSE [c EXCEPT !.offset = 0, !.current_cluster = NoCluster]

\* File::seek(pos): Err(InvalidInput), which leaves the handle as it is,
\* when the target is None.
seek_from(c, f, whence, x) ==
    IF new_offset_opt(c, whence, x) = NoOffset
    THEN [ctx |-> c, err |-> TRUE]
    ELSE [ctx |-> seek(c, f, new_offset_opt(c, whence, x)), err |-> FALSE]

\* File::truncate (release build: the debug assertions are not compiled).
truncate(c, f, b) ==
    LET e == [c.entry EXCEPT !.size = c.offset,
                             !.first_cluster = IF c.offset = 0 THEN NoCluster ELSE @,
                             !.dirty = TRUE]
    IN
    IF c.current_cluster # NoCluster
    THEN LET r == truncate_cluster_chain(f, b, c.current_cluster) IN
         [ctx |-> [c EXCEPT !.entry = e], fat |-> r.fat, bitmap |-> r.bitmap]
    ELSE IF c.first_cluster # NoCluster
    THEN LET r == free_cluster_chain(f, b, c.first_cluster) IN
         [ctx |-> [c EXCEPT !.entry = e, !.first_cluster = NoCluster],
          fat |-> r.fat, bitmap |-> r.bitmap]
    ELSE [ctx |-> [c EXCEPT !.entry = e], fat |-> f, bitmap |-> b]

\* File::flush: the directory entry is written back if dirty.
flush(c, de) ==
    IF c.entry.dirty
    THEN [ctx |-> [c EXCEPT !.entry.dirty = FALSE],
          dirEntry |-> [size |-> c.entry.size, first_cluster |-> c.entry.first_cluster]]
    ELSE [ctx |-> c, dirEntry |-> de]

\* File::close: the handle is consumed and its context, editor included, is
\* returned; nothing is written.
close(c) == c

\* ---- the handle's operations as steps ----

\* A handle whose position has gone wrong is used for at most this many
\* further operations.
MaxStray == 1

\* FileContext's convention (file.rs line 41): at offset 0 there is no current
\* cluster; otherwise the current cluster is the chain member holding byte
\* offset - 1.
PositionOK(c, f) ==
    IF c.offset = 0 THEN c.current_cluster = NoCluster
    ELSE LET idx == ((c.offset - 1) \div ClusterSize) + 1 IN
         /\ idx <= Len(Chain(f, c.first_cluster))
         /\ c.current_cluster = Chain(f, c.first_cluster)[idx]

StrayAfter(c, f) == IF fStray > 0 \/ ~PositionOK(c, f) THEN fStray + 1 ELSE 0

\* Clusters that other files may occupy when the volume is mounted; they
\* fragment the chain of the file under test.
ForeignCandidates == {3, 5}

\* fLast: the operation, the offset it started at, for a read whether the
\* bytes returned are the ones written at those positions, the path taken
\* and the device transfer (start cluster, byte in it, length), and for a
\* truncate the chain as it was before; for a write that failed the chain,
\* the size in the editor and the size in the directory entry as they were
\* before.
NoOp == [op |-> None, at |-> 0, good |-> TRUE, path |-> "none",
         start |-> NoCluster, off |-> 0, io |-> 0, chain |-> <<>>,
         size |-> 0, recorded |-> 0]

\* A mounted volume (spec 4.12: bitmap built by one FAT sweep, dirty flag
\* set) holding some single-cluster files and a newly created empty file,
\* which is open.
FileInitWith(foreign) ==
    /\ fat = [e \in FatEntries |->
                 IF e < RESERVED_FAT_ENTRIES \/ e \in foreign
                 THEN EndOfChain ELSE FatFree]
    /\ data = [c \in Clusters |-> [i \in 0..(ClusterSize - 1) |-> 0]]
    /\ bitmap = build_from_fat(ClusterBitmap_new(TotalClusters), fat, TotalClusters)
    /\ dirtyFlag = TRUE
    /\ dirEntry = [size |-> 0, first_cluster |-> NoCluster]
    /\ ctx = File_new(NoCluster, DirEntryEditor(0, NoCluster))
    /\ fLast = NoOp
    /\ fPhase = "write"
    /\ fWritten = 0
    /\ fStray = 0

InitFileVars == \E foreign \in SUBSET ForeignCandidates : FileInitWith(foreign)

\* Mutant of set_dirty_flag: the flag ends up clear.
set_dirty_flag_clears(flag, value) == FALSE

\* FileSystem::set_dirty_flag: the volume dirty flag takes the value given.
set_dirty_flag(flag, value) == value

\* One call of write with n bytes.  The volume is never full.
FileWrite(n) ==
    /\ fStray <= MaxStray
    /\ \E c \in Clusters : fat[c] = FatFree
    /\ \E r \in {write(ctx, fat, data, bitmap, n)} :
        /\ ctx' = r.ctx
        /\ fStray' = StrayAfter(r.ctx, r.fat)
        /\ fat' = r.fat
        /\ data' = r.data
        /\ bitmap' = r.bitmap
        /\ dirtyFlag' = IF r.dirtied THEN set_dirty_flag(dirtyFlag, TRUE) ELSE dirtyFlag
        /\ fLast' = [NoOp EXCEPT !.op = "write", !.at = ctx.offset,
                                 !.path = r.path, !.start = r.start,
                                 !.off = r.off, !.io = r.io]
        /\ fWritten' = IF fPhase = "write" THEN fWritten + r.ret ELSE 0
    /\ fPhase' = IF fPhase = "write" THEN "write" ELSE "mixed"
    /\ UNCHANGED dirEntry
    /\ UNCHANGED <<lockVars, txnVars, cacheVars, logGhostVars, bitmapVars, dirCacheVars, pageVars, checkpointVars, createVars>>

\* One call of write, with a buffer that is not empty, that fails at the
\* given stage.  Failures are injected into the run of sequential writes
\* that fills the new file.
FileWriteFail(stage) ==
    /\ fStray <= MaxStray
    /\ fPhase = "write"
    /\ bytes_left_until_max_file_size(ctx) > 0
    /\ stage = "alloc" =>
          ctx.offset % ClusterSize = 0 /\ NextOrCurrent(ctx, fat) = NoCluster
    /\ stage = "device" =>
          ctx.offset % ClusterSize = 0 \/ ctx.current_cluster # NoCluster
    /\ \E r \in {write_failing(ctx, fat, bitmap, stage)} :
        /\ ctx' = r.ctx
        /\ fStray' = StrayAfter(r.ctx, r.fat)
        /\ fat' = r.fat
        /\ bitmap' = r.bitmap
    /\ dirtyFlag' = set_dirty_flag(dirtyFlag, TRUE)
    /\ fLast' = [NoOp EXCEPT !.op = "write_failed", !.at = ctx.offset,
                             !.chain = Chain(fat, ctx.first_cluster),
                             !.size = ctx.entry.size,
                             !.recorded = dirEntry.size]
    /\ UNCHANGED <<data, dirEntry, fPhase, fWritten>>
    /\ UNCHANGED <<lockVars, txnVars, cacheVars, logGhostVars, bitmapVars, dirCacheVars, pageVars, checkpointVars, createVars>>

\* One call of read with a buffer of n bytes.
FileRead(n) ==
    /\ fStray <= MaxStray
    /\ \E r \in {read(ctx, fat, data, n)} :
        /\ ctx' = r.ctx
        /\ fStray' = StrayAfter(r.ctx, fat)
        /\ fLast' = [NoOp EXCEPT !.op = "read", !.at = ctx.offset,
                                 !.good = (r.bytes = BufAt(ctx.offset, r.ret)),
                                 !.path = r.path, !.start = r.start,
                                 !.off = r.off, !.io = r.io]
    /\ fPhase' = IF fPhase = "read" THEN "read" ELSE "mixed"
    /\ fWritten' = IF fPhase = "read" THEN fWritten ELSE 0
    /\ UNCHANGED <<fat, data, bitmap, dirtyFlag, dirEntry>>
    /\ UNCHANGED <<lockVars, txnVars, cacheVars, logGhostVars, bitmapVars, dirCacheVars, pageVars, checkpointVars, createVars>>

\* seek(SeekFrom::Start(x)), seek(SeekFrom::Current(x)), seek(SeekFrom::End(x)).
\* fLast records whether the target was past the end of the file, whether
\* the call returned an error, and whether the handle's position was right
\* and the chain covered the size before the call.
FileSeek(whence, x) ==
    /\ fStray <= MaxStray
    /\ \E r \in {seek_from(ctx, fat, whence, x)} :
        /\ ctx' = r.ctx
        /\ fStray' = StrayAfter(r.ctx, fat)
        /\ fLast' = [NoOp EXCEPT !.op = "seek",
                                 !.path = IF SeekTarget(ctx, whence, x) > ctx.entry.size
                                          THEN IF r.err THEN "past_err" ELSE "past"
                                          ELSE IF r.err THEN "err" ELSE "none",
                                 !.good = /\ PositionOK(ctx, fat)
                                          /\ Len(Chain(fat, ctx.first_cluster)) * ClusterSize
                                                 >= ctx.entry.size]
    /\ fPhase' = "mixed"
    /\ fWritten' = 0
    /\ UNCHANGED <<fat, data, bitmap, dirtyFlag, dirEntry>>
    /\ UNCHANGED <<lockVars, txnVars, cacheVars, logGhostVars, bitmapVars, dirCacheVars, pageVars, checkpointVars, createVars>>

\* truncate() at the current position
FileTruncate ==
    /\ fStray <= MaxStray
    /\ \E r \in {truncate(ctx, fat, bitmap)} :
        /\ ctx' = r.ctx
        /\ fStray' = StrayAfter(r.ctx, r.fat)
        /\ fat' = r.fat
        /\ bitmap' = r.bitmap
    /\ fLast' = [NoOp EXCEPT !.op = "truncate", !.at = ctx.offset,
                             !.chain = Chain(fat, ctx.first_cluster)]
    /\ fPhase' = "mixed"
    /\ fWritten' = 0
    /\ UNCHANGED <<data, dirtyFlag, dirEntry>>
    /\ UNCHANGED <<lockVars, txnVars, cacheVars, logGhostVars, bitmapVars, dirCacheVars, pageVars, checkpointVars, createVars>>

\* flush()
FileFlush ==
    /\ fStray <= MaxStray
    /\ ctx' = flush(ctx, dirEntry).ctx
    /\ fStray' = StrayAfter(ctx, fat)
    /\ dirEntry' = flush(ctx, dirEntry).dirEntry
    /\ fLast' = [NoOp EXCEPT !.op = "flush"]
    /\ UNCHANGED <<fat, data, bitmap, dirtyFlag, fPhase, fWritten>>
    /\ UNCHANGED <<lockVars, txnVars, cacheVars, logGhostVars, bitmapVars, dirCacheVars, pageVars, checkpointVars, createVars>>

\* close() of a handle whose editor is dirty; the context returned is used
\* to open the handle again (to_file_with_context).
FileClose ==
    /\ fStray <= MaxStray
    /\ ctx.entry.dirty
    /\ ctx' = close(ctx)
    /\ fLast' = [NoOp EXCEPT !.op = "close"]
    /\ UNCHANGED <<fat, data, bitmap, dirtyFlag, dirEntry, fPhase, fWritten, fStray>>
    /\ UNCHANGED <<lockVars, txnVars, cacheVars, logGhostVars, bitmapVars, dirCacheVars, pageVars, checkpointVars, createVars>>

\* close() of a flushed handle, then the file is opened again from its
\* directory entry.
FileReopen ==
    /\ fStray <= MaxStray
    /\ ~ctx.entry.dirty
    /\ fStray' = StrayAfter(File_new(dirEntry.first_cluster,
                                     DirEntryEditor(dirEntry.size, dirEntry.first_cluster)),
                            fat)
    /\ ctx' = File_new(dirEntry.first_cluster,
                       DirEntryEditor(dirEntry.size, dirEntry.first_cluster))
    /\ fLast' = [NoOp EXCEPT !.op = "open"]
    /\ fPhase' = IF fPhase \in {"write", "read"} THEN "read" ELSE "mixed"
    /\ UNCHANGED fWritten
    /\ UNCHANGED <<fat, data, bitmap, dirtyFlag, dirEntry>>
    /\ UNCHANGED <<lockVars, txnVars, cacheVars, logGhostVars, bitmapVars, dirCacheVars, pageVars, checkpointVars, createVars>>

\* Unmount with the handle flushed and closed, mount again (the bitmap is
\* rebuilt from the FAT), open the file again.
FileRemount ==
    /\ fStray <= MaxStray
    /\ ~ctx.entry.dirty
    /\ fStray' = StrayAfter(File_new(dirEntry.first_cluster,
                                     DirEntryEditor(dirEntry.size, dirEntry.first_cluster)),
                            fat)
    /\ bitmap' = build_from_fat(ClusterBitmap_new(TotalClusters), fat, TotalClusters)
    /\ dirtyFlag' = set_dirty_flag(set_dirty_flag(dirtyFlag, FALSE), TRUE)
    /\ ctx' = File_new(dirEntry.first_cluster,
                       DirEntryEditor(dirEntry.size, dirEntry.first_cluster))
    /\ fLast' = [NoOp EXCEPT !.op = "mount"]
    /\ fPhase' = IF fPhase \in {"write", "read"} THEN "read" ELSE "mixed"
    /\ UNCHANGED fWritten
    /\ UNCHANGED <<fat, data, dirEntry>>
    /\ UNCHANGED <<lockVars, txnVars, cacheVars, logGhostVars, bitmapVars, dirCacheVars, pageVars, checkpointVars, createVars>>

NextFile ==
    \/ \E n \in 1..MaxBuf : FileWrite(n)
    \/ \E stage \in {"alloc", "device"} : FileWriteFail(stage)
    \/ \E n \in 1..MaxBuf : FileRead(n)
    \/ \E x \in 0..(MAX_FILE_SIZE + 1) : FileSeek("Start", x)
    \/ \E x \in {-1, MAX_FILE_SIZE} : FileSeek("Current", x)
    \/ \E x \in {-1, 1} : FileSeek("End", x)
    \/ FileTruncate
    \/ FileFlush
    \/ FileClose
    \/ FileReopen
    \/ FileRemount

\* ---- claims about the file handle ----

FileChain == Chain(fat, ctx.first_cluster)

\* The last operation was a read or write that moved the offset and either
\* ended on a cluster boundary or ran over more than one cluster.
EndsOnBoundaryOrSpans ==
    /\ fLast.op \in {"read", "write"}
    /\ ctx.offset > fLast.at
    /\ \/ ctx.offset % ClusterSize = 0
       \/ (ctx.offset - 1) \div ClusterSize > fLast.at \div ClusterSize

\* C9: after a read or write that ends exactly on a cluster boundary or spans
\* several clusters, started from a handle whose position was right, the
\* current cluster is the chain cluster that holds the byte at offset - 1.
C9_CurrentClusterAfterBoundary ==
    (EndsOnBoundaryOrSpans /\ fStray <= 1) => PositionOK(ctx, fat)


\* C1: a new file is written by a sequence of write calls, flushed, closed
\* and opened again.  Its recorded size is the number of bytes written, and
\* reading it back returns, call by call, the bytes written at those
\* positions, reporting end of file (0 bytes) only at that size.
C1_ReadBackEqualsWritten ==
    /\ fPhase = "write" => ctx.entry.size = fWritten
    /\ fPhase = "read" =>
          /\ dirEntry.size = fWritten
          /\ ctx.entry.size = fWritten
          /\ fLast.op = "read" =>
                /\ fLast.good
                /\ ctx.offset = fLast.at => fLast.at = fWritten

\* C8: after truncate() at offset O the file's chain has exactly
\* ceil(O / ClusterSize) clusters and ends in EndOfChain; for O = 0 the whole
\* former chain is free and the first cluster is cleared in the handle and
\* in its directory entry.
C8_TruncateChainLength ==
    fLast.op = "truncate" =>
        /\ Len(FileChain) = clusters_from_bytes(fLast.at)
        /\ fLast.at > 0 => fat[FileChain[Len(FileChain)]] = EndOfChain
        /\ fLast.at = 0 =>
              /\ ctx.first_cluster = NoCluster
              /\ ctx.entry.first_cluster = NoCluster
              /\ \A i \in 1..Len(fLast.chain) : fat[fLast.chain[i]] = FatFree

\* The same with the truncate called on a handle whose position was right.
TruncateFromRightPosition ==
    (fLast.op = "truncate" /\ fStray = 0) =>
        /\ Len(FileChain) = clusters_from_bytes(fLast.at)
        /\ fLast.at > 0 => fat[FileChain[Len(FileChain)]] = EndOfChain
        /\ fLast.at = 0 =>
              /\ ctx.first_cluster = NoCluster
              /\ ctx.entry.first_cluster = NoCluster
              /\ \A i \in 1..Len(fLast.chain) : fat[fLast.chain[i]] = FatFree

\* The clusters the last fused transfer covered on the device.
FusedCount == clusters_needed(fLast.off + fLast.io, ClusterSize)
FusedClusters == fLast.start..(fLast.start + FusedCount - 1)

\* C10: a fused multi-cluster read or write starts in a cluster of the
\* file's chain and covers only clusters each of which is the FAT successor
\* of the one before it and numbered one higher; it never runs past a
\* cluster whose successor is not the next number, and never covers more
\* than MAX_CONTIGUOUS_BATCH clusters.
C10_FusedRunIsContiguous ==
    fLast.path = "multi" =>
        /\ fLast.start \in ChainSet(fat, ctx.first_cluster)
        /\ FusedCount >= 1
        /\ FusedCount <= MAX_CONTIGUOUS_BATCH
        /\ \A k \in FusedClusters \ {fLast.start} :
              /\ k \in Clusters
              /\ cluster_iter_next(fat, k - 1) = k

\* Witness of C10: a fused transfer covered two clusters and stopped there
\* although the buffer asked for more, because the chain goes on in a
\* cluster that is not the next number.
C10_Witness ==
    /\ fLast.path = "multi"
    /\ FusedCount = 2
    /\ cluster_iter_next(fat, fLast.start + 1) # NoCluster
    /\ cluster_iter_next(fat, fLast.start + 1) # fLast.start + 2

FatConsistent(f) ==
    /\ \A c \in Clusters :
          f[c] # FatFree =>
              /\ Len(Chain(f, c)) < TotalClusters
              /\ f[Chain(f, c)[Len(Chain(f, c))]] = EndOfChain
    /\ \A c1 \in Clusters, c2 \in Clusters :
          (c1 # c2 /\ f[c1] >= RESERVED_FAT_ENTRIES) => f[c1] # f[c2]

\* The clusters that hold bytes written by the caller.
WrittenClusters ==
    {c \in Clusters : \E i \in 0..(ClusterSize - 1) : data[c][i] # 0}

IsPrefix(p, q) == Len(p) <= Len(q) /\ SubSeq(q, 1, Len(p)) = p

\* C20: a write that fails after writes that succeeded leaves the size in
\* the editor and the size in the directory entry unchanged, leaves the
\* chain as it was or longer by the cluster it allocated, so that every
\* cluster written before is still linked in it, and leaves the FAT
\* consistent.
C20_FailedWriteKeepsFile ==
    fLast.op = "write_failed" =>
        /\ ctx.entry.size = fLast.size
        /\ dirEntry.size = fLast.recorded
        /\ ctx.offset = fLast.at
        /\ IsPrefix(fLast.chain, FileChain)
        /\ fPhase = "write" => WrittenClusters \subseteq ChainSet(fat, ctx.first_cluster)
        /\ FatConsistent(fat)

\* Witness of C20: two clusters were written, then a write failed after it
\* had allocated the third.
C20_Witness ==
    /\ fLast.op = "write_failed"
    /\ fPhase = "write"
    /\ fWritten = 2 * ClusterSize
    /\ Len(fLast.chain) = 2
    /\ Len(FileChain) = 3

\* The FAT is consistent in every state.
FatAlwaysConsistent == FatConsistent(fat)

\* The directory entry on the device holds the editor's fields.
EntryEqualsEditor ==
    /\ dirEntry.size = ctx.entry.size
    /\ dirEntry.first_cluster = ctx.entry.first_cluster

\* C21: after an explicit flush, an explicit close and a truncate the
\* directory entry on the device equals the fields of the handle's editor.
C21_EditorWrittenBack ==
    fLast.op \in {"flush", "close", "truncate"} => EntryEqualsEditor

\* The part of C21 about flush.
FlushWritesEntry == fLast.op = "flush" => EntryEqualsEditor /\ ~ctx.entry.dirty

\* C22: a seek whose target is past the end of the file leaves the offset
\* equal to the file size (the value it returns) and the current cluster
\* the one a walk from the first cluster reaches for that offset.
C22_SeekPastEndClamps ==
    (fLast.op = "seek" /\ fLast.path \in {"past", "past_err"}) =>
        /\ ctx.offset = ctx.entry.size
        /\ PositionOK(ctx, fat)

\* The same for the targets that fit in the u32 offset, on a handle whose
\* position was right before the call.
SeekPastEndClampsInRange ==
    (fLast.op = "seek" /\ fLast.path = "past" /\ fLast.good) =>
        /\ ctx.offset = ctx.entry.size
        /\ PositionOK(ctx, fat)

\* The same for the targets that fit, whatever the handle's position was.
SeekPastEndClampsAnyHandle ==
    (fLast.op = "seek" /\ fLast.path = "past") =>
        /\ ctx.offset = ctx.entry.size
        /\ PositionOK(ctx, fat)

C23Step ==
    /\ (fLast'.op = "write" /\ ctx.offset = MAX_FILE_SIZE) =>
          /\ fLast'.io = 0
          /\ UNCHANGED <<ctx, fat, data, bitmap, dirtyFlag, dirEntry>>
    /\ fLast'.op = "write" => ctx'.offset >= ctx.offset
    /\ ctx'.offset <= MAX_FILE_SIZE
    /\ ctx'.entry.size <= MAX_FILE_SIZE
    /\ dirEntry'.size <= MAX_FILE_SIZE

\* C23: a write attempted with the offset at MAX_FILE_SIZE transfers
\* nothing and changes nothing, and no step moves the offset, the size in
\* the editor or the size in the directory entry past MAX_FILE_SIZE or
\* back (no wrap).
C23_WriteStopsAtMaxFileSize == [][C23Step]_vars

\* Witness of C23: the file was filled to MAX_FILE_SIZE bytes by
\* sequential writes and a further write was attempted there.
C23_Witness ==
    /\ fLast.op = "write"
    /\ fLast.at = MAX_FILE_SIZE
    /\ fPhase = "write"
    /\ fWritten = MAX_FILE_SIZE
    /\ ctx.offset = MAX_FILE_SIZE
    /\ ctx.entry.size = MAX_FILE_SIZE

C16Step ==
    (fat' # fat \/ bitmap' # bitmap \/ dirEntry' # dirEntry) =>
        \/ dirtyFlag
        \/ fLast'.op = "write" /\ dirtyFlag'

DiskState(disk, s) == deserialize(disk[s]).entry.state

SlotOrder ==
    {<<"Empty", "Pending">>, <<"Pending", "InProgress">>,
     <<"InProgress", "Committed">>, <<"Committed", "Empty">>}

C14Step ==
    (mounted /\ mounted') =>
        /\ \A s \in Slots :
              /\ entries'[s].state # entries[s].state
                    => <<entries[s].state, entries'[s].state>> \in SlotOrder
              /\ (DiskState(logDisk', s) = "Committed" /\ DiskState(logDisk, s) # "Committed")
                    => /\ entries[s].state = "InProgress"
                       /\ \E t \in TxTasks : txSlot[t] = s /\ txPc[t] = "mutated"
              /\ (logDisk'[s] # logDisk[s] /\ DiskState(logDisk', s) = "Empty")
                    => /\ DiskState(logDisk, s) = "Committed"
                       /\ entries[s].state = "Committed"
        /\ sectors' # sectors
              => \E t \in TxTasks : /\ txPc'[t] = "mutated"
                                    /\ entries'[txSlot[t]].state = "InProgress"

\* C14: during a two-phase commit a slot goes Empty, Pending, InProgress,
\* Committed, Empty in that order and in no other: it is InProgress when the
\* operation's writes are performed, it is written to the log as Committed
\* only after those writes, and as Empty only after it was written as
\* Committed.
C14_SlotStateOrder == [][C14Step]_vars

\* Witness of C14: a slot is Committed in memory and in the log on the
\* device, after the operation changed its sectors.
C14_Witness ==
    \E t \in TxTasks :
        /\ mounted
        /\ txPc[t] = "committed"
        /\ entries[txSlot[t]].state = "Committed"
        /\ DiskState(logDisk, txSlot[t]) = "Committed"
        /\ \E x \in SectorIds : sectors[x] = 2

C15Step ==
    /\ sectors' # sectors =>
          /\ dirtyFlag
          /\ \E t \in TxTasks :
                /\ txPc[t] = "intent"
                /\ deserialize(logDisk[txSlot[t]]).ok
                /\ is_valid(deserialize(logDisk[txSlot[t]]).entry)
                /\ DiskState(logDisk, txSlot[t]) = "Pending"
                /\ deserialize(logDisk[txSlot[t]]).entry.tx_type = txArgs[t].kind
                /\ \A x \in SectorIds :
                      sectors'[x] # sectors[x] =>
                          \E i \in 1..deserialize(logDisk[txSlot[t]]).entry.sector_count :
                              deserialize(logDisk[txSlot[t]]).entry.affected_sectors[i] = x
    /\ \A s \in Slots :
          /\ (mounted /\ logDisk'[s] # logDisk[s] /\ DiskState(logDisk', s) = "Pending")
                => dirtyFlag /\ sectors' = sectors
          /\ (mounted /\ logDisk'[s] # logDisk[s] /\ DiskState(logDisk', s) = "Empty")
                => \E t \in TxTasks : txSlot[t] = s /\ txPc[t] = "committed"

MaxLogSequence == 6
\* A byte that is no TransactionState code.
UnknownStateByte == 255

\* txBegin: whether begin_transaction returned a slot, which, the sequence
\* number it assigned, and about the log before the call: whether some slot
\* was Empty, the state of the slot taken, whether that slot was held by a
\* transaction in flight, the largest sequence number in the log, and the
\* largest ever assigned; and whether every other slot was left as it was.
NoBegin == [op |-> None, found |-> FALSE, slot |-> 0, seq |-> 0, anyEmpty |-> FALSE,
            was |-> "Empty", held |-> FALSE, logMax |-> 0, everMax |-> 0,
            othersKept |-> TRUE]

InitLogGhost ==
    /\ txBegin = NoBegin
    /\ txHeld = {}
    /\ txMaxSeq = 0

\* begin_transaction for one more concurrent transaction.
LogBegin(kind, affected) ==
    /\ mounted
    /\ sequence < MaxLogSequence
    /\ \E r \in {begin_transaction(Log, kind, affected)} :
        /\ entries' = r.log.entries
        /\ sequence' = r.log.sequence
        /\ txBegin' = [op |-> "begin", found |-> r.found, slot |-> r.slot,
                       seq |-> IF r.found THEN r.log.entries[r.slot].sequence ELSE 0,
                       anyEmpty |-> (\E i \in Slots : entries[i].state = "Empty"),
                       was |-> entries[r.slot].state,
                       held |-> (r.found /\ r.slot \in txHeld),
                       logMax |-> MaxOf({entries[i].sequence : i \in Slots}),
                       everMax |-> txMaxSeq,
                       othersKept |-> (\A i \in Slots :
                                          (~r.found \/ i # r.slot)
                                          => r.log.entries[i] = entries[i])]
        /\ txHeld' = IF r.found THEN txHeld \cup {r.slot} ELSE txHeld
        /\ txMaxSeq' = IF r.found /\ r.log.entries[r.slot].sequence > txMaxSeq
                       THEN r.log.entries[r.slot].sequence ELSE txMaxSeq
    /\ UNCHANGED <<logDisk, sectors, mounted, txPc, txSlot, txArgs, txCrash, txRecovered>>
    /\ UNCHANGED <<lockVars, fileVars, cacheVars, bitmapVars, dirCacheVars, pageVars, checkpointVars, createVars>>

\* The transaction holding slot s takes its next step: write_intent, then
\* mark_in_progress, then commit, then clear.
LogStep(s) ==
    /\ mounted
    /\ s \in txHeld
    /\ CASE entries[s].state = "Pending" /\ logDisk[s] # serialize(entries[s]) ->
                /\ logDisk' = write_intent(Log, logDisk, s)
                /\ UNCHANGED <<entries, txHeld>>
         [] entries[s].state = "Pending" /\ logDisk[s] = serialize(entries[s]) ->
                /\ entries' = mark_in_progress(Log, s).entries
                /\ UNCHANGED <<logDisk, txHeld>>
         [] entries[s].state = "InProgress" ->
                /\ entries' = commit(Log, logDisk, s).log.entries
                /\ logDisk' = commit(Log, logDisk, s).disk
                /\ UNCHANGED txHeld
         [] OTHER ->
                /\ entries' = clear(Log, logDisk, s).log.entries
                /\ logDisk' = clear(Log, logDisk, s).disk
                /\ txHeld' = txHeld \ {s}
    /\ txBegin' = NoBegin
    /\ UNCHANGED <<sequence, sectors, mounted, txPc, txSlot, txArgs, txCrash,
                   txRecovered, txMaxSeq>>
    /\ UNCHANGED <<lockVars, fileVars, cacheVars, bitmapVars, dirCacheVars, pageVars, checkpointVars, createVars>>

\* The image of slot s on the device is damaged: its checksum no longer
\* matches, or its state byte is no known code.  One damaged slot at a time.
LogDamage(s, how) ==
    /\ \A i \in Slots : deserialize(logDisk[i]).ok /\ is_valid(deserialize(logDisk[i]).entry)
    /\ logDisk' = [logDisk EXCEPT ![s] =
                      IF how = "crc" THEN [@ EXCEPT !.crc32 = ZeroCrc]
                      ELSE [@ EXCEPT !.state = UnknownStateByte]]
    /\ txBegin' = NoBegin
    /\ UNCHANGED <<entries, sequence, sectors, mounted, txPc, txSlot, txArgs, txCrash,
                   txRecovered, txHeld, txMaxSeq>>
    /\ UNCHANGED <<lockVars, fileVars, cacheVars, bitmapVars, dirCacheVars, pageVars, checkpointVars, createVars>>

\* The volume goes down and is mounted again: the log is loaded from the
\* device and the recovery pass runs.  A log that does not load fails the
\* mount.
LogReload ==
    /\ \E l \in {load(TransactionLog_new, logDisk)} :
        IF l.ok
        THEN /\ entries' = recover(l.log, logDisk).log.entries
             /\ sequence' = recover(l.log, logDisk).log.sequence
             /\ logDisk' = recover(l.log, logDisk).disk
             /\ mounted' = TRUE
        ELSE /\ entries' = TransactionLog_new.entries
             /\ sequence' = TransactionLog_new.sequence
             /\ mounted' = FALSE
             /\ UNCHANGED logDisk
    /\ txHeld' = {}
    /\ txBegin' = NoBegin
    /\ UNCHANGED <<sectors, txPc, txSlot, txArgs, txCrash, txRecovered, txMaxSeq>>
    /\ UNCHANGED <<lockVars, fileVars, cacheVars, bitmapVars, dirCacheVars, pageVars, checkpointVars, createVars>>

NextLog ==
    \/ LogBegin("FatUpdate", <<1>>)
    \/ \E s \in Slots : LogStep(s)
    \/ \E s \in Slots, how \in {"crc", "state"} : LogDamage(s, how)
    \/ LogReload

\* ---- claims about the log alone ----

\* The image of slot s on the device has an unknown type or state byte, or
\* a magic or checksum that does not match.
SlotDamaged(s) ==
    \/ ~deserialize(logDisk[s]).ok
    \/ ~is_valid(deserialize(logDisk[s]).entry)

\* C17: a slot whose stored entry is unknown or has an invalid CRC does not
\* make loading the log fail and is not reported as an incomplete
\* transaction by the loaded log.
C17_DamagedSlotIsEmpty ==
    \A s \in Slots :
        SlotDamaged(s) =>
            /\ load(TransactionLog_new, logDisk).ok
            /\ s \notin get_incomplete_transactions(load(TransactionLog_new, logDisk).log)

\* The same for a slot that deserializes but has an invalid CRC.
InvalidCrcNotReported ==
    \A s \in Slots :
        (deserialize(logDisk[s]).ok /\ ~is_valid(deserialize(logDisk[s]).entry)) =>
            /\ load(TransactionLog_new, logDisk).ok
            /\ s \notin get_incomplete_transactions(load(TransactionLog_new, logDisk).log)

\* C18: begin_transaction takes a slot only if its state is Empty and makes
\* it Pending, leaves every other slot as it was, never returns a slot held
\* by a transaction in flight, and returns no slot exactly when no slot is
\* Empty.
C18_BeginTakesEmptySlot ==
    txBegin.op = "begin" =>
        /\ txBegin.othersKept
        /\ txBegin.found <=> txBegin.anyEmpty
        /\ txBegin.found =>
              /\ txBegin.was = "Empty"
              /\ ~txBegin.held
              /\ entries[txBegin.slot].state = "Pending"

\* Witness of C18: with four transactions in flight, one in each slot, a
\* fifth begin_transaction returned no slot.
C18_Witness ==
    /\ txBegin.op = "begin"
    /\ ~txBegin.found
    /\ txHeld = Slots
    /\ Cardinality(Slots) = MAX_TRANSACTIONS

\* C19: the sequence number begin_transaction assigns is greater than every
\* sequence number assigned before and than every one in the log.
C19_SequenceMonotonic ==
    (txBegin.op = "begin" /\ txBegin.found) =>
        /\ txBegin.seq > txBegin.everMax
        /\ txBegin.seq > txBegin.logMax

\* The part about the numbers in the log.
SequenceAboveLog ==
    (txBegin.op = "begin" /\ txBegin.found) => txBegin.seq > txBegin.logMax

(***************************************************************************)
(*                     FAT SECTOR CACHE (fat_cache.rs)                     *)
(***************************************************************************)

\* Bytes per sector (512 and more in the source).
SectorSize == 2
\* Sectors of the FAT region.
NumFatSectors == 4
\* Slots of the cache (8, 16 or 32 in the source).
FAT_CACHE_SECTORS == 2
\* The largest value of the u32 access counter (u32::MAX in the source).
U32_MAX == 3
\* FAT12 entries 2 .. MaxFatEntry are read and set.
MaxFatEntry == 4

FatBytes == NumFatSectors * SectorSize
FatOffsets == 0..(FatBytes - 1)
Fat12Entries == 2..MaxFatEntry
\* The 12-bit values stored: Free and a cluster number with three distinct
\* hexadecimal digits (0xABC).
Fat12Values == {0, 2748}
CacheSlots == 1..FAT_CACHE_SECTORS

wrapping_add(a, b) == (a + b) % (U32_MAX + 1)

\* sectors[idx] = None
NoSector == [some |-> FALSE, offset |-> 0, data |-> [i \in 1..SectorSize |-> 0],
             valid_len |-> 0, dirty |-> FALSE, last_access |-> 0]

\* FatCache::new.  The hit and miss counters only feed statistics() and are
\* left out.
FatCache_new == [sectors |-> [i \in CacheSlots |-> NoSector], access_counter |-> 0]

sector_offset(offset) == (offset \div SectorSize) * SectorSize

\* find_sector: the first slot holding the sector, 0 for None; a hit advances
\* the access counter.
FindIdx(c, offset) ==
    LET hits == {i \in CacheSlots : c.sectors[i].some
                                    /\ c.sectors[i].offset = sector_offset(offset)}
    IN IF hits = {} THEN 0 ELSE CHOOSE i \in hits : \A j \in hits : i <= j
find_sector(c, offset) ==
    IF FindIdx(c, offset) = 0 THEN [idx |-> 0, cache |-> c]
    ELSE [idx |-> FindIdx(c, offset),
          cache |-> [c EXCEPT !.access_counter = wrapping_add(@, 1)]]

\* find_lru_slot: the first empty slot, else the first slot with the smallest
\* last_access below u32::MAX, else slot 0 (here slot 1: slots count from 1).
RECURSIVE LruScan(_, _, _, _)
LruScan(c, idx, lru_idx, lru_time) ==
    IF idx > FAT_CACHE_SECTORS THEN lru_idx
    ELSE IF ~c.sectors[idx].some THEN idx
    ELSE IF c.sectors[idx].last_access < lru_time
    THEN LruScan(c, idx + 1, idx, c.sectors[idx].last_access)
    ELSE LruScan(c, idx + 1, lru_idx, lru_time)
find_lru_slot(c) == LruScan(c, 1, 1, U32_MAX)

\* storage.seek + the write loop: the sector's valid bytes go to the device.
StorageWrite(d, sector) ==
    [o \in FatOffsets |->
        IF o >= sector.offset /\ o < sector.offset + sector.valid_len
        THEN sector.data[o - sector.offset + 1] ELSE d[o]]
\* storage.seek + storage.read of one sector.
StorageRead(d, at) == [i \in 1..SectorSize |-> d[at + i - 1]]

\* copy_from_slice of the first to_copy bytes of src into dst from `from`.
CopyInto(dst, from, src, to_copy) ==
    [i \in 1..Len(dst) |->
        IF i >= from /\ i < from + to_copy THEN src[i - from + 1] ELSE dst[i]]

\* The miss path of read_cached and write_cached: pick the LRU slot, write
\* it back if dirty, fill it with the sector read from the device.
LoadSector(c, d, offset) ==
    LET slot_idx == find_lru_slot(c)
        old_sector == c.sectors[slot_idx]
        d1 == IF old_sector.some /\ old_sector.dirty
              THEN StorageWrite(d, old_sector) ELSE d
        counter == wrapping_add(c.access_counter, 1)
    IN [idx |-> slot_idx, evicted |-> old_sector, dev |-> d1,
        cache |-> [sectors |-> [c.sectors EXCEPT ![slot_idx] =
                                  [some |-> TRUE, offset |-> sector_offset(offset),
                                   data |-> StorageRead(d1, sector_offset(offset)),
                                   valid_len |-> SectorSize, dirty |-> FALSE,
                                   last_access |-> counter]],
                   access_counter |-> counter]]

\* read_cached after the lookup: f is the result of find_sector, m what the
\* miss path does.
read_cached_with(d, offset, buf, f, m) ==
    LET offset_in_sector == offset - sector_offset(offset) IN
    IF f.idx # 0
    THEN LET sector == f.cache.sectors[f.idx]
             to_copy == Min(Len(buf), sector.valid_len - offset_in_sector)
         IN [cache |-> [f.cache EXCEPT !.sectors[f.idx].last_access =
                                          f.cache.access_counter],
             dev |-> d, idx |-> f.idx, hit |-> TRUE, evicted |-> NoSector,
             buf |-> CopyInto(buf, 1, SubSeq(sector.data, offset_in_sector + 1,
                                             offset_in_sector + to_copy), to_copy)]
    ELSE LET sector == m.cache.sectors[m.idx]
             to_copy == Min(Len(buf), sector.valid_len - offset_in_sector)
         IN [cache |-> m.cache, dev |-> m.dev, idx |-> m.idx, hit |-> FALSE,
             evicted |-> m.evicted,
             buf |-> CopyInto(buf, 1, SubSeq(sector.data, offset_in_sector + 1,
                                             offset_in_sector + to_copy), to_copy)]

\* read_cached: buf receives at most the bytes left in the one sector that
\* holds `offset`.
read_cached(c, d, offset, buf) ==
    read_cached_with(d, offset, buf, find_sector(c, offset), LoadSector(c, d, offset))

\* write_cached after the lookup: f is the result of find_sector, m what the
\* miss path does.
write_cached_with(d, offset, buf, f, m) ==
    LET offset_in_sector == offset - sector_offset(offset)
        hit == f.idx # 0
        slot_idx == IF hit THEN f.idx ELSE m.idx
        c1 == IF hit THEN f.cache ELSE m.cache
        sector == c1.sectors[slot_idx]
        to_copy == Min(Len(buf), sector.valid_len - offset_in_sector)
    IN [cache |-> [c1 EXCEPT !.sectors[slot_idx] =
                      [sector EXCEPT !.last_access = c1.access_counter,
                                     !.data = CopyInto(sector.data, offset_in_sector + 1,
                                                       buf, to_copy),
                                     !.dirty = TRUE]],
        dev |-> IF hit THEN d ELSE m.dev, idx |-> slot_idx, hit |-> hit,
        evicted |-> IF hit THEN NoSector ELSE m.evicted]

\* write_cached: the sector is loaded on a miss, then the bytes of buf that
\* fit in that sector are copied into the slot, which becomes dirty.
write_cached(c, d, offset, buf) ==
    write_cached_with(d, offset, buf, find_sector(c, offset), LoadSector(c, d, offset))

\* Mutant of FatCache::flush: the dirty flags are cleared, nothing is written.
RECURSIVE flush_clears_only(_, _, _)
flush_clears_only(c, d, idx) ==
    IF idx > FAT_CACHE_SECTORS THEN [cache |-> c, dev |-> d]
    ELSE flush_clears_only([c EXCEPT !.sectors[idx].dirty = FALSE], d, idx + 1)

\* FatCache::flush, from slot idx on: every dirty slot is written to the
\* device and marked clean.
RECURSIVE FatCache_flush(_, _, _)
FatCache_flush(c, d, idx) ==
    IF idx > FAT_CACHE_SECTORS THEN [cache |-> c, dev |-> d]
    ELSE IF c.sectors[idx].some /\ c.sectors[idx].dirty
    THEN FatCache_flush([c EXCEPT !.sectors[idx].dirty = FALSE],
                        StorageWrite(d, c.sectors[idx]), idx + 1)
    ELSE FatCache_flush(c, d, idx + 1)

\* Ok(buf.len()) of CachedFatSlice::read and write: r is what read_cached
\* or write_cached did, n the length of buf.
ReportLen(r, n) == [r EXCEPT !.ret = n]

\* CachedFatSlice::read at current_offset: whatever read_cached copied, the
\* whole length of buf is reported as read.
CachedFatSlice_read(c, d, current_offset, buf) ==
    ReportLen(read_cached(c, d, current_offset, buf) @@ [ret |-> 0], Len(buf))

\* CachedFatSlice::write at current_offset: the whole length of buf is
\* reported as written.
CachedFatSlice_write(c, d, current_offset, buf) ==
    ReportLen(write_cached(c, d, current_offset, buf) @@ [ret |-> 0], Len(buf))

\* ---- the FAT12 accessor (table.rs, not in the sources at hand; spec 4.5) ----

\* A read of the FAT region without the cache: the bytes at the offset.
DiskSlice_read(d, offset, n) == [i \in 1..n |-> d[offset + i - 1]]
\* A write of the FAT region without the cache.
DiskSlice_write(d, offset, buf) ==
    [o \in FatOffsets |->
        IF o >= offset /\ o < offset + Len(buf) THEN buf[o - offset + 1] ELSE d[o]]

\* Byte offset of a FAT12 entry: cluster + cluster / 2.
fat12_offset(cluster) == cluster + (cluster \div 2)

\* The little-endian value of the two bytes of r.buf.
u16_le(r) ==
    [cache |-> r.cache, dev |-> r.dev, value |-> r.buf[1] + 256 * r.buf[2],
     idx |-> r.idx, hit |-> r.hit, evicted |-> r.evicted]

\* read_u16_le at `offset`: read_exact into a zeroed two-byte buffer, which
\* takes the count each read reports; little-endian.
read_u16_le(c, d, cached, offset) ==
    IF cached
    THEN u16_le(CachedFatSlice_read(c, d, offset, <<0, 0>>))
    ELSE u16_le([cache |-> c, dev |-> d, buf |-> DiskSlice_read(d, offset, 2),
                 idx |-> 0, hit |-> FALSE, evicted |-> NoSector])

\* write_u16_le at `offset`.
write_u16_le(c, d, cached, offset, value) ==
    IF cached
    THEN CachedFatSlice_write(c, d, offset, <<value % 256, value \div 256>>)
    ELSE [cache |-> c, dev |-> DiskSlice_write(d, offset, <<value % 256, value \div 256>>)]

\* The entry's 12 bits of the packed 16: the low 12 bits for an even
\* cluster, the high 12 bits for an odd one.
Fat12_unpack(r, cluster) ==
    [cache |-> r.cache, dev |-> r.dev, idx |-> r.idx, hit |-> r.hit,
     evicted |-> r.evicted,
     value |-> IF cluster % 2 = 0 THEN r.value % 4096 ELSE r.value \div 16]

\* Fat12::get: the packed 16 bits at the entry's offset, unpacked.
Fat12_get(c, d, cached, cluster) ==
    Fat12_unpack(read_u16_le(c, d, cached, fat12_offset(cluster)), cluster)

\* The packed 16 bits with the entry's 12 bits replaced by value.
Fat12_pack(packed, cluster, value) ==
    IF cluster % 2 = 0
    THEN (packed - (packed % 4096)) + value
    ELSE (packed % 16) + (value * 16)

\* What Fat12::set leaves: the cache and device after the write w; the slot
\* and eviction of the read r.
Fat12_set_result(r, w) ==
    [cache |-> w.cache, dev |-> w.dev, idx |-> r.idx, hit |-> r.hit,
     evicted |-> r.evicted]

\* The write half of Fat12::set, after the read r of the packed 16 bits.
Fat12_set_write(r, cached, cluster, value) ==
    Fat12_set_result(r, write_u16_le(r.cache, r.dev, cached, fat12_offset(cluster),
                                     Fat12_pack(r.value, cluster, value)))

\* Fat12::set: read the packed 16 bits, replace the entry's 12 bits, write
\* the 16 bits back.
Fat12_set(c, d, cached, cluster, value) ==
    Fat12_set_write(read_u16_le(c, d, cached, fat12_offset(cluster)),
                    cached, cluster, value)

\* ---- steps ----

\* The slot just used becomes the most recently used.
Touch(order, idx) ==
    IF idx = 0 THEN order ELSE Append(SelectSeq(order, LAMBDA i : i # idx), idx)

\* fcLast: the operation and its entry; for a get whether it returned the
\* value last stored; whether the first sector access hit; whether a filled
\* slot was replaced and whether it was dirty; whether the replaced slot was
\* the least recently used one; whether the device then held the replaced
\* slot's bytes; for a flush the number of slots that were dirty.
NoFatOp == [op |-> None, cluster |-> 0, good |-> TRUE, hit |-> FALSE, wrote |-> 0,
            evict |-> FALSE, evictDirty |-> FALSE, lruOK |-> TRUE, savedOK |-> TRUE]

FatOpRecord(op, cluster, good, r) ==
    [op |-> op, cluster |-> cluster, good |-> good, hit |-> r.hit, wrote |-> 0,
     evict |-> r.evicted.some,
     evictDirty |-> (r.evicted.some /\ r.evicted.dirty),
     lruOK |-> (r.evicted.some => r.idx = Head(fcOrder)),
     savedOK |-> (r.evicted.some =>
                     StorageRead(r.dev, r.evicted.offset) = r.evicted.data)]

\* fcRange: the last read_cached, write_cached or flush call made with a byte
\* range; for a read whether the range crosses a sector boundary and whether
\* the caller's buffer holds what a direct read of the range returns.
NoRangeOp == [op |-> "none", crosses |-> FALSE, direct |-> TRUE]

FatInitWith(cached) ==
    /\ fatDev = [o \in FatOffsets |-> 0]
    /\ fatCache = FatCache_new
    /\ fatCached = cached
    /\ fatShadow = [e \in Fat12Entries |-> 0]
    /\ fcOrder = <<>>
    /\ fcLast = NoFatOp
    /\ fcDirect = [o \in FatOffsets |-> 0]
    /\ fcRange = NoRangeOp

InitCacheVars == \E cached \in BOOLEAN : FatInitWith(cached)

\* FatTrait::get(cluster) on the FAT12 volume.
FatGet(cluster) ==
    /\ \E r \in {Fat12_get(fatCache, fatDev, fatCached, cluster)} :
        /\ fatCache' = r.cache
        /\ fatDev' = r.dev
        /\ fcOrder' = Touch(fcOrder, r.idx)
        /\ fcLast' = FatOpRecord("get", cluster, r.value = fatShadow[cluster], r)
    /\ UNCHANGED <<fatCached, fatShadow, fcDirect, fcRange>>
    /\ UNCHANGED <<lockVars, txnVars, fileVars, logGhostVars, bitmapVars, dirCacheVars, pageVars, checkpointVars, createVars>>

\* FatTrait::set(cluster, value) on the FAT12 volume.
FatSet(cluster, value) ==
    /\ \E r \in {Fat12_set(fatCache, fatDev, fatCached, cluster, value)} :
        /\ fatCache' = r.cache
        /\ fatDev' = r.dev
        /\ fcOrder' = Touch(fcOrder, r.idx)
        /\ fcLast' = FatOpRecord("set", cluster, TRUE, r)
    /\ fatShadow' = [fatShadow EXCEPT ![cluster] = value]
    /\ UNCHANGED <<fatCached, fcDirect, fcRange>>
    /\ UNCHANGED <<lockVars, txnVars, fileVars, logGhostVars, bitmapVars, dirCacheVars, pageVars, checkpointVars, createVars>>

\* CachedFatSlice::flush.
FatFlush ==
    /\ fatCached
    /\ \E r \in {FatCache_flush(fatCache, fatDev, 1)} :
        /\ fatCache' = r.cache
        /\ fatDev' = r.dev
    /\ fcLast' = [NoFatOp EXCEPT !.op = "flush",
                               !.wrote = Cardinality({i \in CacheSlots :
                                            fatCache.sectors[i].dirty})]
    /\ UNCHANGED <<fatCached, fatShadow, fcOrder, fcDirect, fcRange>>
    /\ UNCHANGED <<lockVars, txnVars, fileVars, logGhostVars, bitmapVars, dirCacheVars, pageVars, checkpointVars, createVars>>

NextCache ==
    \/ \E cluster \in Fat12Entries : FatGet(cluster)
    \/ \E cluster \in Fat12Entries, value \in Fat12Values : FatSet(cluster, value)
    \/ FatFlush

\* ---- claims about the FAT cache ----

\* The entry's two bytes lie in different sectors.
Straddles(cluster) ==
    sector_offset(fat12_offset(cluster)) # sector_offset(fat12_offset(cluster) + 1)

\* The byte of the FAT at offset o as the accessor sees it: the cached copy
\* if the sector is cached, else the device's.
FatByte(o) ==
    IF fatCached /\ FindIdx(fatCache, o) # 0
    THEN fatCache.sectors[FindIdx(fatCache, o)].data[o - sector_offset(o) + 1]
    ELSE fatDev[o]

\* The value the FAT holds for an entry.
StoredEntry(cluster) ==
    LET packed == FatByte(fat12_offset(cluster)) + 256 * FatByte(fat12_offset(cluster) + 1)
    IN IF cluster % 2 = 0 THEN packed % 4096 ELSE packed \div 16

\* C11: a FAT12 entry whose two bytes straddle a sector boundary reads as the
\* value last stored, and setting it stores the value in both sectors and
\* leaves every other entry as it was, with or without the sector cache.
C11_StraddlingEntry ==
    (fcLast.op \in {"get", "set"} /\ Straddles(fcLast.cluster)) =>
        /\ fcLast.good
        /\ \A e \in Fat12Entries : StoredEntry(e) = fatShadow[e]

\* The same without the sector cache.
StraddlingEntryUncached ==
    (~fatCached /\ fcLast.op \in {"get", "set"}) =>
        /\ fcLast.good
        /\ \A e \in Fat12Entries : StoredEntry(e) = fatShadow[e]

\* C12: when a miss replaces a filled slot, that slot is the least recently
\* used one, and if it was dirty the device holds its bytes afterwards.
C12_EvictsLruAndWritesBack ==
    fcLast.evict => /\ fcLast.lruOK
                    /\ fcLast.evictDirty => fcLast.savedOK

\* The write-back half alone.
EvictionWritesBack == fcLast.evictDirty => fcLast.savedOK

\* C13: after a flush no slot is dirty and the device holds, for every
\* cached sector, the bytes of its slot.
C13_FlushLeavesCacheClean ==
    fcLast.op = "flush" =>
        \A i \in CacheSlots :
            fatCache.sectors[i].some =>
                /\ ~fatCache.sectors[i].dirty
                /\ SubSeq(StorageRead(fatDev, fatCache.sectors[i].offset), 1,
                          fatCache.sectors[i].valid_len)
                   = SubSeq(fatCache.sectors[i].data, 1, fatCache.sectors[i].valid_len)

\* Witness of C13: a flush found every slot dirty, with stored values in them.
C13_Witness ==
    /\ fcLast.op = "flush"
    /\ fcLast.wrote = FAT_CACHE_SECTORS
    /\ \E o \in FatOffsets : fatDev[o] # 0

(***************************************************************************)
(*                 THE CLUSTER BITMAP ALONE (cluster_bitmap.rs)            *)
(***************************************************************************)

\* Number of clusters of the bitmap driven alone.
BitmapClusters == 5
BitmapData == RESERVED_FAT_ENTRIES..(BitmapClusters - 1)

\* Start hints passed to find_free: every cluster, the first numbers past the
\* bitmap, and the two ends of the range where end + 7 passes u32::MAX.
BitmapStarts == (0..(BitmapClusters + 1)) \cup {ClusterU32Max - BitsPerByte + 1, ClusterU32Max}
\* Run lengths asked of find_contiguous_free.
MaxRun == 2

\* A FAT whose data clusters in `used` are allocated and the others free.
FatWithUsed(used) == [e \in FatEntries |-> IF e \in used THEN EndOfChain ELSE FatFree]

NoBitmapOp == [op |-> "none", start |-> 0, count |-> 0, cluster |-> -1,
               panic |-> FALSE, pre |-> ClusterBitmap_new(BitmapClusters), built |-> FALSE]
\* The record of a call `op`; built tells whether build_from_fat ever ran.
BitmapOp(op, was_built) == [NoBitmapOp EXCEPT !.op = op, !.pre = bm, !.built = was_built]

\* The bitmap of the other specifications: constructed and left alone.
BitmapInitIdle ==
    /\ bm = ClusterBitmap_new(BitmapClusters)
    /\ bmLast = NoBitmapOp

\* ClusterBitmap::new, or new followed by the mount's build_from_fat.
InitBitmapVars ==
    \/ /\ bm = ClusterBitmap_new(BitmapClusters)
       /\ bmLast = NoBitmapOp
    \/ \E used \in SUBSET BitmapData :
          /\ bm = build_from_fat(ClusterBitmap_new(BitmapClusters), FatWithUsed(used),
                                 BitmapClusters)
          /\ bmLast = [NoBitmapOp EXCEPT !.built = TRUE]

BitmapSetAllocated(cluster) ==
    /\ bm' = set_allocated(bm, cluster)
    /\ bmLast' = [BitmapOp("set_allocated", bmLast.built) EXCEPT !.start = cluster]
    /\ UNCHANGED <<lockVars, txnVars, fileVars, cacheVars, logGhostVars, dirCacheVars, pageVars, checkpointVars, createVars>>

BitmapSetFree(cluster) ==
    /\ bm' = set_free(bm, cluster)
    /\ bmLast' = [BitmapOp("set_free", bmLast.built) EXCEPT !.start = cluster]
    /\ UNCHANGED <<lockVars, txnVars, fileVars, cacheVars, logGhostVars, dirCacheVars, pageVars, checkpointVars, createVars>>

\* find_free(start_cluster), in a build with or without overflow checks.
BitmapFindFree(start_cluster, overflow_checks) ==
    /\ IF overflow_checks /\ find_free_overflows(bm, start_cluster)
       THEN /\ bm' = bm
            /\ bmLast' = [BitmapOp("find_free", bmLast.built) EXCEPT !.start = start_cluster,
                                            !.panic = TRUE]
       ELSE \E r \in {find_free(bm, start_cluster)} :
            /\ bm' = r.bitmap
            /\ bmLast' = [BitmapOp("find_free", bmLast.built) EXCEPT !.start = start_cluster,
                                            !.cluster = IF r.found THEN r.cluster ELSE -1]
    /\ UNCHANGED <<lockVars, txnVars, fileVars, cacheVars, logGhostVars, dirCacheVars, pageVars, checkpointVars, createVars>>

\* find_free_in_range(start, end), as find_free calls it: end is total_clusters.
BitmapFindFreeInRange(start) ==
    /\ bmLast' = [BitmapOp("find_free_in_range", bmLast.built) EXCEPT !.start = start,
                                    !.cluster = find_free_in_range(bm, start, bm.total_clusters)]
    /\ UNCHANGED bm
    /\ UNCHANGED <<lockVars, txnVars, fileVars, cacheVars, logGhostVars, dirCacheVars, pageVars, checkpointVars, createVars>>

BitmapFindContiguous(count, start_cluster) ==
    /\ bmLast' = [BitmapOp("find_contiguous_free", bmLast.built) EXCEPT !.start = start_cluster,
                                    !.count = count,
                                    !.cluster = find_contiguous_free(bm, count, start_cluster)]
    /\ UNCHANGED bm
    /\ UNCHANGED <<lockVars, txnVars, fileVars, cacheVars, logGhostVars, dirCacheVars, pageVars, checkpointVars, createVars>>

\* build_from_fat over a FAT read at a (re)mount.
BitmapBuildFromFat(used) ==
    /\ bm' = build_from_fat(bm, FatWithUsed(used), BitmapClusters)
    /\ bmLast' = BitmapOp("build_from_fat", TRUE)
    /\ UNCHANGED <<lockVars, txnVars, fileVars, cacheVars, logGhostVars, dirCacheVars, pageVars, checkpointVars, createVars>>

NextBitmap ==
    \/ \E c \in 0..BitmapClusters : BitmapSetAllocated(c)
    \/ \E c \in 0..BitmapClusters : BitmapSetFree(c)
    \/ \E s \in BitmapStarts, oc \in BOOLEAN : BitmapFindFree(s, oc)
    \/ \E s \in 0..BitmapClusters : BitmapFindFreeInRange(s)
    \/ \E n \in 0..MaxRun, s \in 0..BitmapClusters : BitmapFindContiguous(n, s)
    \/ \E used \in SUBSET BitmapData : BitmapBuildFromFat(used)

\* ---- claims about the cluster bitmap ----

BitmapSearches == {"find_free", "find_free_in_range", "find_contiguous_free"}

\* C24: on a bitmap built from the FAT, whatever was allocated or freed since
\* and whatever the start hint, find_free, find_free_in_range and
\* find_contiguous_free never return a cluster below 2 (the reserved entries
\* 0 and 1).
C24_ReservedNeverReturned ==
    (/\ bmLast.built
     /\ bmLast.op \in BitmapSearches
     /\ bmLast.cluster >= 0)
    => bmLast.cluster >= RESERVED_FAT_ENTRIES

\* What does hold: a search never returns a cluster the bitmap reports as
\* allocated or one outside the bitmap.
SearchReturnsFreeCluster ==
    (bmLast.op \in BitmapSearches /\ bmLast.cluster >= 0)
    => is_free(bmLast.pre, bmLast.cluster)

AnyFree(b) == \E c \in 0..(b.total_clusters - 1) : is_free(b, c)

\* C25: find_free(start) returns a cluster that was free when at least one
\* cluster was free, and returns none only when no cluster was free.
C25_FindFreeComplete ==
    bmLast.op = "find_free"
    => /\ ~bmLast.panic
       /\ bmLast.cluster >= 0 => is_free(bmLast.pre, bmLast.cluster)
       /\ bmLast.cluster = -1 => ~AnyFree(bmLast.pre)

\* What does hold: the same, for the start hints whose sum with 7 still fits
\* a u32 (any cluster number of a real volume among them).
FindFreeCompleteBelowOverflow ==
    (bmLast.op = "find_free" /\ bmLast.start + BitsPerByte - 1 <= ClusterU32Max)
    => /\ ~bmLast.panic
       /\ bmLast.cluster >= 0 => is_free(bmLast.pre, bmLast.cluster)
       /\ bmLast.cluster = -1 => ~AnyFree(bmLast.pre)

\* The n clusters s .. s+n-1 are all free and inside the bitmap.
FreeRun(b, s, n) == \A i \in 0..(n - 1) : is_free(b, s + i)

\* C26: find_contiguous_free(n), n >= 1, returns s only if the n clusters
\* s .. s+n-1 are all free and inside the bitmap, and returns none only if no
\* run of n consecutive free clusters exists.
C26_ContiguousExact ==
    (bmLast.op = "find_contiguous_free" /\ bmLast.count >= 1)
    => /\ bmLast.cluster >= 0 => FreeRun(bmLast.pre, bmLast.cluster, bmLast.count)
       /\ bmLast.cluster = -1
              => ~\E s \in 0..(bmLast.pre.total_clusters - 1) :
                      FreeRun(bmLast.pre, s, bmLast.count)

\* What does hold: a returned run is free and inside the bitmap, and on a
\* bitmap that build_from_fat never touched none means that no run starts at
\* or after the start cluster.
ContiguousRunIsFree ==
    (bmLast.op = "find_contiguous_free" /\ bmLast.count >= 1)
    => /\ bmLast.cluster >= 0
              => /\ FreeRun(bmLast.pre, bmLast.cluster, bmLast.count)
                 /\ bmLast.cluster >= bmLast.start
       /\ (bmLast.cluster = -1 /\ ~bmLast.built)
              => ~\E s \in bmLast.start..(bmLast.pre.total_clusters - 1) :
                      FreeRun(bmLast.pre, s, bmLast.count)

FreeClusters(b) == {c \in 0..(b.total_clusters - 1) : is_free(b, c)}

\* C27: the cached free count equals the number of clusters for which is_free
\* is true, after construction, after build_from_fat and after any sequence of
\* set_allocated and set_free calls.
C27_FreeCountExact == bm.free_count = Cardinality(FreeClusters(bm))

\* What does hold: the count is exact as long as build_from_fat never ran.
FreeCountExactWithoutBuild ==
    ~bmLast.built => bm.free_count = Cardinality(FreeClusters(bm))

(***************************************************************************)
(*                 DIRECTORY-ENTRY CACHE (dir_cache.rs)                    *)
(***************************************************************************)

\* const DIR_CACHE_ENTRIES (16 or 64 in the source), scaled.
DIR_CACHE_ENTRIES == 2
\* The range of hash_path (u64 in the source), scaled so that paths collide.
HashRange == 3
\* First clusters of the directories looked into.
DirParents == {2, 3}
\* Names asked for; "a" and "A" name the same file.
DirNames == {"a", "A", "b"}
\* What an entry can hold (DirFileEntryData) and where it can lie.
MaxEntryData == 2
MaxEntryOffset == 0

\* char::to_lowercase over the names used.
to_lowercase(name) == IF name = "A" THEN "a" ELSE name
\* str::eq_ignore_ascii_case
eq_ignore_ascii_case(x, y) == to_lowercase(x) = to_lowercase(y)
NameByte(name) == IF to_lowercase(name) = "a" THEN 0 ELSE 1

\* DirCache::hash_path: a hash of the parent cluster and the lower-cased
\* name (FNV-1a over 64 bits in the source; here over HashRange values).
hash_path(parent_cluster, name) == (parent_cluster + NameByte(name)) % HashRange

\* Option<CachedDirEntry>::None
NoEntry == [used |-> FALSE]
DirSlots == 1..DIR_CACHE_ENTRIES

\* CachedDirEntry
CachedDirEntry(parent_cluster, name, entry_data, entry_cluster, entry_offset) ==
    [used |-> TRUE, path_hash |-> hash_path(parent_cluster, name),
     parent_cluster |-> parent_cluster, name |-> name, entry_data |-> entry_data,
     entry_cluster |-> entry_cluster, entry_offset |-> entry_offset, last_access |-> 0]

\* DirCache::new
DirCache_new == [entries |-> [i \in DirSlots |-> NoEntry], lru_queue |-> <<>>,
                 access_counter |-> 0]

SeqWithout(q, x) == SelectSeq(q, LAMBDA i : i # x)
InSeq(q, x) == \E k \in 1..Len(q) : q[k] = x

\* DirCache::get: the first slot whose hash, parent and name match is a hit;
\* its last_access is refreshed and it moves to the front of the LRU queue.
DirCache_get(cache, parent_cluster, name) ==
    LET match == {i \in DirSlots :
                     /\ cache.entries[i].used
                     /\ cache.entries[i].path_hash = hash_path(parent_cluster, name)
                     /\ cache.entries[i].parent_cluster = parent_cluster
                     /\ eq_ignore_ascii_case(cache.entries[i].name, name)}
    IN IF match = {}
       THEN [hit |-> FALSE, entry |-> NoEntry, cache |-> cache]
       ELSE [hit |-> TRUE,
             entry |-> [cache.entries[MinOf(match)] EXCEPT
                           !.last_access = wrapping_add(cache.access_counter, 1)],
             cache |-> [cache EXCEPT
                 !.access_counter = wrapping_add(@, 1),
                 !.entries[MinOf(match)].last_access = wrapping_add(cache.access_counter, 1),
                 !.lru_queue = IF InSeq(@, MinOf(match))
                               THEN <<MinOf(match)>> \o SeqWithout(@, MinOf(match))
                               ELSE @]]

\* DirCache::find_slot_for_insert: the first empty slot, else the back of the
\* LRU queue, else the slot with the oldest last_access.
find_slot_for_insert(cache) ==
    IF \E i \in DirSlots : ~cache.entries[i].used
    THEN MinOf({i \in DirSlots : ~cache.entries[i].used})
    ELSE IF cache.lru_queue # <<>>
         THEN cache.lru_queue[Len(cache.lru_queue)]
         ELSE MinOf({i \in DirSlots : \A j \in DirSlots :
                        cache.entries[i].last_access <= cache.entries[j].last_access})

\* The queue after push_front(idx) and the pop_back of a queue grown too long.
lru_push_front(q, idx) ==
    IF Len(q) + 1 > DIR_CACHE_ENTRIES THEN <<idx>> \o SubSeq(q, 1, Len(q) - 1)
    ELSE <<idx>> \o q

\* DirCache::insert: a slot with the same hash is overwritten in place;
\* otherwise the entry goes to the slot find_slot_for_insert names.
DirCache_insert(cache, entry) ==
    IF \E i \in DirSlots : cache.entries[i].used /\ cache.entries[i].path_hash = entry.path_hash
    THEN [cache EXCEPT
            !.entries[MinOf({i \in DirSlots : /\ cache.entries[i].used
                                           /\ cache.entries[i].path_hash = entry.path_hash})]
                = entry]
    ELSE [cache EXCEPT
            !.access_counter = wrapping_add(@, 1),
            !.entries[find_slot_for_insert(cache)] =
                [entry EXCEPT !.last_access = wrapping_add(cache.access_counter, 1)],
            !.lru_queue = lru_push_front(@, find_slot_for_insert(cache))]

\* Mutant of invalidate_directory: it stops at the first entry it drops.
invalidate_directory_first_only(cache, parent_cluster) ==
    LET hit == {i \in DirSlots : cache.entries[i].used
                              /\ cache.entries[i].parent_cluster = parent_cluster}
    IN IF hit = {} THEN cache
       ELSE [cache EXCEPT !.entries[MinOf(hit)] = NoEntry,
                          !.lru_queue = SeqWithout(@, MinOf(hit))]

\* DirCache::invalidate_directory: every entry of the directory is dropped
\* and the LRU queue keeps the slots still in use.
invalidate_directory(cache, parent_cluster) ==
    LET dropped == {i \in DirSlots : cache.entries[i].used
                                  /\ cache.entries[i].parent_cluster = parent_cluster}
    IN [cache EXCEPT
          !.entries = [i \in DirSlots |-> IF i \in dropped THEN NoEntry ELSE @[i]],
          !.lru_queue = SelectSeq(@, LAMBDA i : i \notin dropped)]

\* ---- the directories and their use of the cache (spec 4.10) ----

DirFileNames == {to_lowercase(n) : n \in DirNames}
\* An entry on the device: where it lies in its directory and what it holds;
\* present = FALSE is a name the directory does not have.
NoDiskEntry == [present |-> FALSE, entry_offset |-> 0, entry_data |-> 0]
DiskEntries == {[present |-> TRUE, entry_offset |-> o, entry_data |-> d] :
                   o \in 0..MaxEntryOffset, d \in 1..MaxEntryData}
\* The directories start empty or with one entry each.
InitialDisks == {[p \in DirParents |-> [n \in DirFileNames |->
                     IF full /\ n = "a"
                     THEN [present |-> TRUE, entry_offset |-> 0, entry_data |-> 1]
                     ELSE NoDiskEntry]] : full \in BOOLEAN}

NoLookup == [op |-> "none", parent_cluster |-> 0, name |-> "", hit |-> FALSE,
             found |-> FALSE, entry |-> NoEntry]

DirCacheInitIdle ==
    /\ dirCache = DirCache_new
    /\ dirDisk = [p \in DirParents |-> [n \in DirFileNames |-> NoDiskEntry]]
    /\ dcLast = NoLookup

\* An empty cache over directories with any content.
InitDirCacheVars ==
    /\ dirCache = DirCache_new
    /\ dirDisk \in InitialDisks
    /\ dcLast = NoLookup

\* A path lookup of `name` in the directory `parent`: the cache is asked
\* first; on a miss the directory is read and what was found is cached.
DirLookup(parent, name) ==
    /\ \E r \in {DirCache_get(dirCache, parent, name)} :
         IF r.hit
         THEN /\ dirCache' = r.cache
              /\ dcLast' = [op |-> "lookup", parent_cluster |-> parent, name |-> name,
                            hit |-> TRUE, found |-> TRUE, entry |-> r.entry]
         ELSE \E d \in {dirDisk[parent][to_lowercase(name)]} :
              /\ dirCache' = IF d.present
                             THEN DirCache_insert(r.cache,
                                      CachedDirEntry(parent, name, d.entry_data, parent,
                                                     d.entry_offset))
                             ELSE r.cache
              /\ dcLast' = [op |-> "lookup", parent_cluster |-> parent, name |-> name,
                            hit |-> FALSE, found |-> d.present, entry |-> NoEntry]
    /\ UNCHANGED dirDisk
    /\ UNCHANGED <<lockVars, txnVars, fileVars, cacheVars, logGhostVars, bitmapVars, pageVars, checkpointVars, createVars>>

\* A write in the directory `parent`: the entry `name` is created, removed or
\* rewritten on the device, and the directory's cached entries are dropped.
DirWrite(parent, name, new) ==
    /\ new # dirDisk[parent][name]
    /\ dirDisk' = [dirDisk EXCEPT ![parent][name] = new]
    /\ dirCache' = invalidate_directory(dirCache, parent)
    /\ dcLast' = [NoLookup EXCEPT !.op = "write"]
    /\ UNCHANGED <<lockVars, txnVars, fileVars, cacheVars, logGhostVars, bitmapVars, pageVars, checkpointVars, createVars>>

\* A rename: the entry leaves (from, name) and appears as (to, new_name); both
\* directories are written.
DirRename(from, name, to, new_name) ==
    /\ dirDisk[from][name].present
    /\ ~dirDisk[to][new_name].present
    /\ <<from, name>> # <<to, new_name>>
    /\ dirDisk' = [p \in DirParents |-> [n \in DirFileNames |->
                      IF <<p, n>> = <<from, name>> THEN NoDiskEntry
                      ELSE IF <<p, n>> = <<to, new_name>> THEN dirDisk[from][name]
                      ELSE dirDisk[p][n]]]
    /\ dirCache' = invalidate_directory(invalidate_directory(dirCache, from), to)
    /\ dcLast' = [NoLookup EXCEPT !.op = "rename"]
    /\ UNCHANGED <<lockVars, txnVars, fileVars, cacheVars, logGhostVars, bitmapVars, pageVars, checkpointVars, createVars>>

NextDirCache ==
    \/ \E p \in DirParents, n \in DirNames : DirLookup(p, n)
    \/ \E p \in DirParents, n \in DirFileNames, d \in {NoDiskEntry} \cup DiskEntries :
          DirWrite(p, n, d)
    \/ \E p, q \in DirParents, n, m \in DirFileNames : DirRename(p, n, q, m)

\* ---- claims about the directory-entry cache ----

\* The entry the device holds for a cached entry's (parent, name).
OnDisk(e) == dirDisk[e.parent_cluster][to_lowercase(e.name)]
MatchesDisk(e) ==
    /\ OnDisk(e).present
    /\ e.entry_cluster = e.parent_cluster
    /\ e.entry_offset = OnDisk(e).entry_offset
    /\ e.entry_data = OnDisk(e).entry_data

MaxRange == 2
MaxCacheByte == 1
RangeBytes == 0..MaxCacheByte
\* The byte ranges lie in the first RangeSectors sectors of the FAT region.
RangeSectors == 3
RangeOffsets == 0..(RangeSectors * SectorSize - 1)
\* Writes start at one of the two bytes next to the first sector boundary.
RangeWriteOffsets == (SectorSize - 1)..SectorSize

\* An empty cache over a FAT region whose bytes are all MaxCacheByte.
InitCacheRanges ==
    /\ fatDev = [o \in FatOffsets |-> MaxCacheByte]
    /\ fatCache = FatCache_new
    /\ fatCached = TRUE
    /\ fatShadow = [e \in Fat12Entries |-> 0]
    /\ fcOrder = <<>>
    /\ fcLast = NoFatOp
    /\ fcDirect = fatDev
    /\ fcRange = NoRangeOp

\* The range of len bytes at offset lies in more than one sector.
CrossesSector(offset, len) == sector_offset(offset) # sector_offset(offset + len - 1)

\* read_cached(storage, offset, buf) with a zeroed buf of len bytes.
CacheRead(offset, len) ==
    /\ offset + len <= RangeSectors * SectorSize
    /\ \E r \in {read_cached(fatCache, fatDev, offset, [i \in 1..len |-> 0])} :
        /\ fatCache' = r.cache
        /\ fatDev' = r.dev
        /\ fcRange' = [op |-> "read", crosses |-> CrossesSector(offset, len),
                       direct |-> (r.buf = DiskSlice_read(fcDirect, offset, len))]
    /\ UNCHANGED <<fatCached, fatShadow, fcOrder, fcLast, fcDirect>>
    /\ UNCHANGED <<lockVars, txnVars, fileVars, logGhostVars, bitmapVars, dirCacheVars, pageVars, checkpointVars, createVars>>

\* write_cached(storage, offset, buf); a direct write would store all of buf.
CacheWrite(offset, buf) ==
    /\ offset + Len(buf) <= RangeSectors * SectorSize
    /\ \E r \in {write_cached(fatCache, fatDev, offset, buf)} :
        /\ fatCache' = r.cache
        /\ fatDev' = r.dev
    /\ fcDirect' = DiskSlice_write(fcDirect, offset, buf)
    /\ fcRange' = [NoRangeOp EXCEPT !.op = "write",
                                   !.crosses = CrossesSector(offset, Len(buf))]
    /\ UNCHANGED <<fatCached, fatShadow, fcOrder, fcLast>>
    /\ UNCHANGED <<lockVars, txnVars, fileVars, logGhostVars, bitmapVars, dirCacheVars, pageVars, checkpointVars, createVars>>

\* FatCache::flush.
CacheFlush ==
    /\ \E r \in {FatCache_flush(fatCache, fatDev, 1)} :
        /\ fatCache' = r.cache
        /\ fatDev' = r.dev
    /\ fcRange' = [NoRangeOp EXCEPT !.op = "flush"]
    /\ UNCHANGED <<fatCached, fatShadow, fcOrder, fcLast, fcDirect>>
    /\ UNCHANGED <<lockVars, txnVars, fileVars, logGhostVars, bitmapVars, dirCacheVars, pageVars, checkpointVars, createVars>>

NextCacheRanges ==
    \/ \E offset \in RangeOffsets, len \in 1..MaxRange : CacheRead(offset, len)
    \/ \E offset \in RangeWriteOffsets, len \in 1..MaxRange :
           \E buf \in [1..len -> RangeBytes] : CacheWrite(offset, buf)
    \/ CacheFlush

\* C34: the sector cache is transparent: after any sequence of cached reads
\* and writes, with their evictions, and flushes, a read of a byte range
\* through the cache returns what a read of that range would return had
\* every write gone to the device directly: the bytes last written to the
\* range, the device's original bytes where none were.
C34_CacheTransparent == fcRange.op = "read" => fcRange.direct

\* The slots of the loaded log that hold a transaction: a valid checksum and
\* state Pending, InProgress or Committed.
ValidBusySlots ==
    {i \in Slots : /\ is_valid(entries[i])
                   /\ entries[i].state \in {"Pending", "InProgress", "Committed"}}

\* C35: on a log loaded from the device, begin_transaction returns a slot
\* whenever fewer than MAX_TRANSACTIONS slots hold a transaction with a valid
\* checksum in state Pending, InProgress or Committed: a slot with a corrupt
\* or stale entry does not keep the log from starting a transaction.
C35_CorruptSlotIsFree ==
    (txBegin.op = "begin" /\ ~txBegin.found)
        => Cardinality(ValidBusySlots) = MAX_TRANSACTIONS

\* The cached entry e is one for the key (parent_cluster, name).
SameKey(e, parent_cluster, name) ==
    /\ e.parent_cluster = parent_cluster
    /\ eq_ignore_ascii_case(e.name, name)

\* The first half of C37 alone: a hit returns an entry of the key asked for.
GetReturnsOwnKey ==
    (dcLast.op = "lookup" /\ dcLast.hit)
        => SameKey(dcLast.entry, dcLast.parent_cluster, dcLast.name)

\* C37: a get for (parent, name) returns only an entry of that parent and
\* that name ignoring ASCII case, and the insert that follows a miss leaves
\* the cached entry of every other (parent, name) as it was, two keys with
\* the same hash included; only the eviction of the least recently used
\* entry from a full cache may take another key's slot.
C37_KeyedGetAndInsert ==
    [][dcLast'.op = "lookup"
          => /\ dcLast'.hit
                   => SameKey(dcLast'.entry, dcLast'.parent_cluster, dcLast'.name)
             /\ (~dcLast'.hit /\ dcLast'.found)
                   => \A i \in DirSlots :
                          (/\ dirCache.entries[i].used
                           /\ ~SameKey(dirCache.entries[i], dcLast'.parent_cluster,
                                       dcLast'.name))
                             => \/ dirCache'.entries[i] = dirCache.entries[i]
                                \/ /\ \A j \in DirSlots : dirCache.entries[j].used
                                   /\ i = find_slot_for_insert(dirCache)]_vars

(***************************************************************************)
(*        CLUSTER CHECKPOINTS (file.rs, feature cluster-checkpoints)       *)
(***************************************************************************)

\* The table has 8 entries in the source and the first interval is 1 << 3
\* clusters; both are scaled to the size of the files here.
CHECKPOINT_SLOTS == 2
CheckpointShift == 1

CheckpointSlotIds == 1..CHECKPOINT_SLOTS

\* checkpoints: [(0, 0); 8], checkpoint_count: 0 of File::new.
NoCheckpoints ==
    [checkpoints |-> [i \in CheckpointSlotIds |-> [index |-> 0, cluster |-> NoCluster]],
     checkpoint_count |-> 0]

InitCheckpointVars == ckpt = NoCheckpoints

\* record_checkpoint(cluster_index, cluster): stored in the next entry when
\* cluster_index is a positive multiple of the interval and the table has room.
record_checkpoint(k, cluster_index, cluster) ==
    LET checkpoint_interval ==
            2 ^ (Min(k.checkpoint_count, CHECKPOINT_SLOTS - 1) + CheckpointShift)
    IN IF /\ cluster_index > 0
          /\ cluster_index % checkpoint_interval = 0
          /\ k.checkpoint_count < CHECKPOINT_SLOTS
       THEN [checkpoints |-> [k.checkpoints EXCEPT ![k.checkpoint_count + 1] =
                                 [index |-> cluster_index, cluster |-> cluster]],
             checkpoint_count |-> k.checkpoint_count + 1]
       ELSE k

\* The loop of find_closest_checkpoint from entry i on, with the best so far.
RECURSIVE ClosestFrom(_, _, _, _, _)
ClosestFrom(k, i, target_cluster_index, best_cluster, best_index) ==
    IF i > k.checkpoint_count THEN [cluster |-> best_cluster, index |-> best_index]
    ELSE IF /\ k.checkpoints[i].index <= target_cluster_index
            /\ k.checkpoints[i].index > best_index
    THEN ClosestFrom(k, i + 1, target_cluster_index, k.checkpoints[i].cluster,
                     k.checkpoints[i].index)
    ELSE ClosestFrom(k, i + 1, target_cluster_index, best_cluster, best_index)

\* find_closest_checkpoint: (starting cluster, clusters already traversed).
find_closest_checkpoint(c, k, target_cluster_index) ==
    IF k.checkpoint_count = 0 THEN [cluster |-> c.first_cluster, index |-> 0]
    ELSE ClosestFrom(k, 1, target_cluster_index, c.first_cluster, 0)

\* File::seek in a build with cluster-checkpoints: the walk starts at the
\* closest checkpoint instead of the first cluster.
seek_checkpointed(c, f, k, pos) ==
    LET new_offset == Min(pos, c.entry.size)
        new_offset_in_clusters == clusters_from_bytes(new_offset)
        old_offset_in_clusters == clusters_from_bytes(c.offset)
        from == find_closest_checkpoint(c, k, new_offset_in_clusters - 1)
        w == SeekWalk(f, from.cluster, from.index, new_offset_in_clusters - 1)
    IN
    IF new_offset = c.offset THEN c
    ELSE IF new_offset = 0
    THEN [c EXCEPT !.offset = 0, !.current_cluster = NoCluster]
    ELSE IF new_offset_in_clusters = old_offset_in_clusters
    THEN [c EXCEPT !.offset = new_offset]
    ELSE IF c.first_cluster # NoCluster
    THEN [c EXCEPT !.offset = IF w.short THEN bytes_from_clusters(w.i + 1)
                              ELSE new_offset,
                   !.current_cluster = w.cluster]
    ELSE [c EXCEPT !.offset = 0, !.current_cluster = NoCluster]

\* The checkpoint a read or write records after it moved the position: the
\* cluster it used, under the index (offset / cluster_size).saturating_sub(1).
RecordAfter(k, r) ==
    IF r.path = "single" /\ r.ctx.offset > 0
    THEN record_checkpoint(k, saturating_sub(r.ctx.offset \div ClusterSize, 1), r.start)
    ELSE k

\* read of n bytes that stay in one cluster (the single-cluster path).
CkRead(n) ==
    /\ fStray <= MaxStray
    /\ n <= ClusterSize - (ctx.offset % ClusterSize)
    /\ \E r \in {read(ctx, fat, data, n)} :
        /\ ctx' = r.ctx
        /\ fStray' = StrayAfter(r.ctx, fat)
        /\ ckpt' = RecordAfter(ckpt, r)
    /\ fLast' = [NoOp EXCEPT !.op = "read"]
    /\ UNCHANGED <<fat, data, bitmap, dirtyFlag, dirEntry, fPhase, fWritten>>
    /\ UNCHANGED <<lockVars, txnVars, cacheVars, logGhostVars, bitmapVars, dirCacheVars, pageVars, createVars>>

\* write of one byte (the single-cluster path); the volume is never full.
CkWrite ==
    /\ fStray <= MaxStray
    /\ \E c \in Clusters : fat[c] = FatFree
    /\ \E r \in {write(ctx, fat, data, bitmap, 1)} :
        /\ ctx' = r.ctx
        /\ fStray' = StrayAfter(r.ctx, r.fat)
        /\ fat' = r.fat
        /\ data' = r.data
        /\ bitmap' = r.bitmap
        /\ dirtyFlag' = IF r.dirtied THEN set_dirty_flag(dirtyFlag, TRUE) ELSE dirtyFlag
        /\ ckpt' = RecordAfter(ckpt, r)
    /\ fLast' = [NoOp EXCEPT !.op = "write"]
    /\ UNCHANGED <<dirEntry, fPhase, fWritten>>
    /\ UNCHANGED <<lockVars, txnVars, cacheVars, logGhostVars, bitmapVars, dirCacheVars, pageVars, createVars>>

\* seek(SeekFrom::Start(x)).
CkSeek(x) ==
    /\ fStray <= MaxStray
    /\ ctx' = seek_checkpointed(ctx, fat, ckpt, x)
    /\ fStray' = StrayAfter(seek_checkpointed(ctx, fat, ckpt, x), fat)
    /\ fLast' = [NoOp EXCEPT !.op = "seek", !.at = x]
    /\ UNCHANGED <<fat, data, bitmap, dirtyFlag, dirEntry, fPhase, fWritten, ckpt>>
    /\ UNCHANGED <<lockVars, txnVars, cacheVars, logGhostVars, bitmapVars, dirCacheVars, pageVars, createVars>>

\* truncate() at the current position; the checkpoint table is not touched.
CkTruncate ==
    /\ fStray <= MaxStray
    /\ \E r \in {truncate(ctx, fat, bitmap)} :
        /\ ctx' = r.ctx
        /\ fStray' = StrayAfter(r.ctx, r.fat)
        /\ fat' = r.fat
        /\ bitmap' = r.bitmap
    /\ fLast' = [NoOp EXCEPT !.op = "truncate"]
    /\ UNCHANGED <<data, dirtyFlag, dirEntry, fPhase, fWritten, ckpt>>
    /\ UNCHANGED <<lockVars, txnVars, cacheVars, logGhostVars, bitmapVars, dirCacheVars, pageVars, createVars>>

\* flush(), the handle is dropped and the file is opened again: the new
\* handle starts with an empty checkpoint table.
CkReopen ==
    /\ fStray <= MaxStray
    /\ \E r \in {flush(ctx, dirEntry)} :
        /\ dirEntry' = r.dirEntry
        /\ ctx' = File_new(r.dirEntry.first_cluster,
                           DirEntryEditor(r.dirEntry.size, r.dirEntry.first_cluster))
    /\ ckpt' = NoCheckpoints
    /\ fStray' = 0
    /\ fLast' = [NoOp EXCEPT !.op = "open"]
    /\ UNCHANGED <<fat, data, bitmap, dirtyFlag, fPhase, fWritten>>
    /\ UNCHANGED <<lockVars, txnVars, cacheVars, logGhostVars, bitmapVars, dirCacheVars, pageVars, createVars>>

\* The cluster that another file, one cluster long, holds at the start.
CkForeign == MinOf(ForeignCandidates)

\* That file is removed: its cluster becomes free.
CkForeignRemove(c) ==
    /\ fStray <= MaxStray
    /\ fat[c] = EndOfChain
    /\ c \notin ChainSet(fat, ctx.first_cluster)
    /\ \E r \in {free_cluster_chain(fat, bitmap, c)} :
        /\ fat' = r.fat
        /\ bitmap' = r.bitmap
    /\ fLast' = [NoOp EXCEPT !.op = "remove"]
    /\ UNCHANGED <<data, dirtyFlag, dirEntry, ctx, fPhase, fWritten, fStray, ckpt>>
    /\ UNCHANGED <<lockVars, txnVars, cacheVars, logGhostVars, bitmapVars, dirCacheVars, pageVars, createVars>>

NextCheckpoints ==
    \/ \E n \in 1..ClusterSize : CkRead(n)
    \/ CkWrite
    \/ \E x \in 0..MAX_FILE_SIZE : CkSeek(x)
    \/ CkTruncate
    \/ CkReopen
    \/ CkForeignRemove(CkForeign)

\* C36: seeking with the checkpoint table gives what walking the chain from
\* the first cluster gives: after any reads, writes, seeks and truncates, a
\* seek to T leaves the current cluster equal to the cluster at index
\* ceil(T / S) - 1 of the file's present chain (none at T = 0), so that no
\* checkpoint recorded before a truncate or re-extension is used afterwards.
C36_CheckpointSeek == fLast.op = "seek" => PositionOK(ctx, fat)

(***************************************************************************)
(*                 PAGE BUFFER (fatrs-adapters-core)                       *)
(***************************************************************************)

\* BLOCK_SIZE * BLOCKS_PER_PAGE bytes make a page; two bytes stand for them.
PAGE_SIZE == 2
NumPages == 2
MaxPageByte == 1
MaxSrcLen == PAGE_SIZE + 1

Pages == 0..(NumPages - 1)
PageBytes == 0..MaxPageByte
PageData == [1..PAGE_SIZE -> PageBytes]
\* current_page: Option<u32>; NoPage is None.
NoPage == -1

ZeroPage == [i \in 1..PAGE_SIZE |-> 0]

PageBuffer_new == [buffer |-> ZeroPage, dirty |-> FALSE, current_page |-> NoPage]

\* read_page without the dirty-page check: the requested page is loaded over
\* whatever the buffer holds.
read_page_discards_dirty(pb, dev, page_num) ==
    IF pb.current_page = page_num
    THEN [pb |-> pb, result |-> "Ok", io |-> FALSE]
    ELSE [pb |-> [buffer |-> dev[page_num], dirty |-> FALSE, current_page |-> page_num],
          result |-> "Ok", io |-> TRUE]

\* read_page: nothing to do for the page already loaded; a dirty buffer holding
\* another page is refused; otherwise the page is read from the device.
PageBuffer_read_page(pb, dev, page_num) ==
    IF pb.current_page = page_num
    THEN [pb |-> pb, result |-> "Ok", io |-> FALSE]
    ELSE IF pb.dirty /\ pb.current_page # NoPage
    THEN [pb |-> pb, result |-> "DirtyPageConflict", io |-> FALSE]
    ELSE [pb |-> [buffer |-> dev[page_num], dirty |-> FALSE, current_page |-> page_num],
          result |-> "Ok", io |-> TRUE]

\* write_page: the buffer goes to the device at page_num.
PageBuffer_write_page(pb, dev, page_num) ==
    [pb |-> [pb EXCEPT !.current_page = page_num, !.dirty = FALSE],
     dev |-> [dev EXCEPT ![page_num] = pb.buffer]]

\* copy_from: min(len, PAGE_SIZE) bytes of src, the rest zeroed; the buffer
\* becomes page_num and dirty.
PageBuffer_copy_from(pb, src, page_num) ==
    [buffer |-> [i \in 1..PAGE_SIZE |-> IF i <= Len(src) THEN src[i] ELSE 0],
     dirty |-> TRUE,
     current_page |-> page_num]

PageBuffer_flush(pb, dev) ==
    IF pb.dirty /\ pb.current_page # NoPage
    THEN PageBuffer_write_page(pb, dev, pb.current_page)
    ELSE [pb |-> pb, dev |-> dev]

PageBuffer_clear(pb) == [pb EXCEPT !.dirty = FALSE, !.current_page = NoPage]

\* read_pages_direct: each page comes from the device through a temporary
\* buffer; the internal buffer is not consulted.
PageBuffer_read_pages_direct(dev, start_page, num_pages) ==
    [i \in 1..num_pages |-> dev[start_page + i - 1]]

\* write_pages_direct: each page of src goes to the device, then the internal
\* buffer is invalidated.
PageBuffer_write_pages_direct(pb, dev, start_page, src, num_pages) ==
    [pb |-> [pb EXCEPT !.current_page = NoPage, !.dirty = FALSE],
     dev |-> [p \in Pages |-> IF p >= start_page /\ p < start_page + num_pages
                               THEN src[p - start_page + 1]
                               ELSE dev[p]]]

NoPageOp == [op |-> "none", page_num |-> 0, result |-> "Ok", io |-> FALSE,
             pre |-> PageBuffer_new, read |-> <<>>]

PageInitIdle ==
    /\ pageBuf = PageBuffer_new
    /\ pbDev = [p \in Pages |-> ZeroPage]
    /\ pbAccepted = [p \in Pages |-> ZeroPage]
    /\ pbLast = NoPageOp

\* A new buffer over a device with any content.
InitPageVars ==
    /\ pageBuf = PageBuffer_new
    /\ pbDev \in [Pages -> {ZeroPage, [i \in 1..PAGE_SIZE |-> MaxPageByte]}]
    /\ pbAccepted = pbDev
    /\ pbLast = NoPageOp

PbReadPage(page_num) ==
    /\ \E r \in {PageBuffer_read_page(pageBuf, pbDev, page_num)} :
         /\ pageBuf' = r.pb
         /\ pbLast' = [NoPageOp EXCEPT !.op = "read_page", !.page_num = page_num,
                                        !.result = r.result, !.io = r.io,
                                        !.pre = pageBuf]
    /\ UNCHANGED <<pbDev, pbAccepted>>
    /\ UNCHANGED <<lockVars, txnVars, fileVars, cacheVars, logGhostVars, bitmapVars, dirCacheVars, checkpointVars, createVars>>

\* data_mut() and a store of `byte` at index i of the slice it returns.
PbDataMut(i, byte) ==
    /\ pageBuf.current_page # NoPage
    /\ pageBuf' = [pageBuf EXCEPT !.dirty = TRUE, !.buffer[i] = byte]
    /\ pbAccepted' = [pbAccepted EXCEPT ![pageBuf.current_page][i] = byte]
    /\ pbLast' = [NoPageOp EXCEPT !.op = "data_mut", !.page_num = pageBuf.current_page]
    /\ UNCHANGED pbDev
    /\ UNCHANGED <<lockVars, txnVars, fileVars, cacheVars, logGhostVars, bitmapVars, dirCacheVars, checkpointVars, createVars>>

PbCopyFrom(src, page_num) ==
    /\ \E pb \in {PageBuffer_copy_from(pageBuf, src, page_num)} :
         /\ pageBuf' = pb
         /\ pbAccepted' = [pbAccepted EXCEPT ![page_num] = pb.buffer]
    /\ pbLast' = [NoPageOp EXCEPT !.op = "copy_from", !.page_num = page_num]
    /\ UNCHANGED pbDev
    /\ UNCHANGED <<lockVars, txnVars, fileVars, cacheVars, logGhostVars, bitmapVars, dirCacheVars, checkpointVars, createVars>>

PbFlush ==
    /\ \E r \in {PageBuffer_flush(pageBuf, pbDev)} :
         /\ pageBuf' = r.pb
         /\ pbDev' = r.dev
    /\ pbLast' = [NoPageOp EXCEPT !.op = "flush"]
    /\ UNCHANGED pbAccepted
    /\ UNCHANGED <<lockVars, txnVars, fileVars, cacheVars, logGhostVars, bitmapVars, dirCacheVars, checkpointVars, createVars>>

\* clear(): the caller discards what the buffer holds; the bytes accepted for
\* its page are again those of the device.
PbClear ==
    /\ pageBuf' = PageBuffer_clear(pageBuf)
    /\ pbAccepted' = IF pageBuf.dirty /\ pageBuf.current_page # NoPage
                     THEN [pbAccepted EXCEPT ![pageBuf.current_page] =
                                                 pbDev[pageBuf.current_page]]
                     ELSE pbAccepted
    /\ pbLast' = [NoPageOp EXCEPT !.op = "clear"]
    /\ UNCHANGED pbDev
    /\ UNCHANGED <<lockVars, txnVars, fileVars, cacheVars, logGhostVars, bitmapVars, dirCacheVars, checkpointVars, createVars>>

PbReadPagesDirect(start_page, num_pages) ==
    /\ start_page + num_pages <= NumPages
    /\ pbLast' = [NoPageOp EXCEPT !.op = "read_pages_direct", !.page_num = start_page,
                                   !.pre = pageBuf,
                                   !.read = PageBuffer_read_pages_direct(pbDev, start_page,
                                                                         num_pages)]
    /\ UNCHANGED <<pageBuf, pbDev, pbAccepted>>
    /\ UNCHANGED <<lockVars, txnVars, fileVars, cacheVars, logGhostVars, bitmapVars, dirCacheVars, checkpointVars, createVars>>

PbWritePagesDirect(start_page, src, num_pages) ==
    /\ start_page + num_pages <= NumPages
    /\ \E r \in {PageBuffer_write_pages_direct(pageBuf, pbDev, start_page, src, num_pages)} :
         /\ pageBuf' = r.pb
         /\ pbDev' = r.dev
    /\ pbAccepted' = [p \in Pages |-> IF p >= start_page /\ p < start_page + num_pages
                                      THEN src[p - start_page + 1]
                                      ELSE pbAccepted[p]]
    /\ pbLast' = [NoPageOp EXCEPT !.op = "write_pages_direct", !.page_num = start_page]
    /\ UNCHANGED <<lockVars, txnVars, fileVars, cacheVars, logGhostVars, bitmapVars, dirCacheVars, checkpointVars, createVars>>

SrcSlices == UNION {[1..n -> PageBytes] : n \in 0..MaxSrcLen}

NextPageBuffer ==
    \/ \E page_num \in Pages : PbReadPage(page_num)
    \/ \E i \in 1..PAGE_SIZE, byte \in PageBytes : PbDataMut(i, byte)
    \/ \E src \in SrcSlices, page_num \in Pages : PbCopyFrom(src, page_num)
    \/ PbFlush
    \/ PbClear
    \/ \E start_page \in Pages, num_pages \in 0..NumPages :
           PbReadPagesDirect(start_page, num_pages)
    \/ \E start_page \in Pages, num_pages \in 0..NumPages :
           \E src \in [1..num_pages -> PageData] :
               PbWritePagesDirect(start_page, src, num_pages)

\* C32: when the buffer holds a dirty page P, read_page of another page fails
\* with DirtyPageConflict and read_page of P succeeds, and in both cases the
\* buffer contents, the current page and the dirty flag stay as they were and
\* the device is not touched.
C32_DirtyPageConflict ==
    (pbLast.op = "read_page" /\ pbLast.pre.dirty /\ pbLast.pre.current_page # NoPage)
        => /\ pageBuf = pbLast.pre
           /\ ~pbLast.io
           /\ pbLast.result = IF pbLast.page_num = pbLast.pre.current_page
                              THEN "Ok"
                              ELSE "DirtyPageConflict"

\* Witness of C32: read_page of another page was refused while the buffer
\* held modified bytes that the device does not have.
C32_Witness ==
    /\ pbLast.op = "read_page"
    /\ pbLast.result = "DirtyPageConflict"
    /\ pbLast.page_num # pageBuf.current_page
    /\ pageBuf.dirty
    /\ pageBuf.buffer # pbDev[pageBuf.current_page]

\* C38: the buffer never silently drops modified data: once flush has
\* succeeded, every page of the device holds the bytes last accepted for it,
\* and a direct read made with nothing pending in the buffer returns, for
\* each page, the bytes last accepted for it.
C38_NoSilentDrop ==
    /\ pbLast.op = "flush" => \A p \in Pages : pbDev[p] = pbAccepted[p]
    /\ (pbLast.op = "read_pages_direct" /\ ~pbLast.pre.dirty)
          => \A i \in 1..Len(pbLast.read) :
                 pbLast.read[i] = pbAccepted[pbLast.page_num + i - 1]

(***************************************************************************)
(*                             SPECIFICATIONS                              *)
(***************************************************************************)

\* ==========================================================================
\* CONCURRENT FILE CREATION (tests/concurrent_access.rs, share.rs, file.rs)
\* ==========================================================================
\* Tasks on one executor share a FileSystem; each creates a file under its own
\* name, writes one cluster of its own byte and flushes.  A task runs until a
\* call that reaches the byte stream; there another task may be scheduled.

NumCreators == 2
Creators == 1..NumCreators
\* One cluster and one directory slot more than the tasks need.
CrClusters == RESERVED_FAT_ENTRIES..(RESERVED_FAT_ENTRIES + NumCreators)
CrSlots == 1..(NumCreators + 1)

\* Nobody holds the lock of Shared<IO>.
NoHolder == 0
\* A free directory slot.
NoDirEntry == [name |-> 0, first_cluster |-> NoCluster, size |-> 0]

InitCreateVars ==
    /\ crFat = [c \in CrClusters |-> FatFree]
    /\ crDir = [s \in CrSlots |-> NoDirEntry]
    /\ crData = [c \in CrClusters |-> 0]
    /\ crDisk = [holder |-> NoHolder, pos |-> NoCluster]
    /\ crPc = [t \in Creators |-> "start"]
    /\ crLocal = [t \in Creators |-> [slot |-> 0, cluster |-> NoCluster]]

CrOthers == <<lockVars, txnVars, fileVars, cacheVars, logGhostVars, bitmapVars, dirCacheVars,
              pageVars, checkpointVars>>

CrFreeSlots == {s \in CrSlots : crDir[s] = NoDirEntry}
CrFreeClusters == {c \in CrClusters : crFat[c] = FatFree}

\* Dir::create_file, first half: the directory is read, the name is not found,
\* the first free slot is chosen.
CreateFindSlot(t) ==
    /\ crPc[t] = "start"
    /\ crDisk.holder = NoHolder
    /\ CrFreeSlots # {}
    /\ crLocal' = [crLocal EXCEPT ![t].slot = MinOf(CrFreeSlots)]
    /\ crPc' = [crPc EXCEPT ![t] = "slot"]
    /\ UNCHANGED <<crFat, crDir, crData, crDisk>>
    /\ UNCHANGED CrOthers

\* Dir::create_file, second half: the entry (no first cluster, size 0) is written
\* to the chosen slot.
CreateWriteEntry(t) ==
    /\ crPc[t] = "slot"
    /\ crDisk.holder = NoHolder
    /\ crDir' = [crDir EXCEPT ![crLocal[t].slot] =
                    [name |-> t, first_cluster |-> NoCluster, size |-> 0]]
    /\ crPc' = [crPc EXCEPT ![t] = "created"]
    /\ UNCHANGED <<crFat, crData, crDisk, crLocal>>
    /\ UNCHANGED CrOthers

\* File::write at offset 0 of an empty file: the chain has no cluster, so
\* alloc_cluster is called; allocation protocol step 1 locates a free cluster.
AllocLocate(t) ==
    /\ crPc[t] = "created"
    /\ crDisk.holder = NoHolder
    /\ CrFreeClusters # {}
    /\ crLocal' = [crLocal EXCEPT ![t].cluster = MinOf(CrFreeClusters)]
    /\ crPc' = [crPc EXCEPT ![t] = "located"]
    /\ UNCHANGED <<crFat, crDir, crData, crDisk>>
    /\ UNCHANGED CrOthers

\* Allocation protocol step 2: the located cluster is marked EndOfChain (there
\* is no previous cluster to link); File::write sets it as the first cluster.
AllocMark(t) ==
    /\ crPc[t] = "located"
    /\ crDisk.holder = NoHolder
    /\ crFat' = [crFat EXCEPT ![crLocal[t].cluster] = EndOfChain]
    /\ crPc' = [crPc EXCEPT ![t] = "allocated"]
    /\ UNCHANGED <<crDir, crData, crDisk, crLocal>>
    /\ UNCHANGED CrOthers

\* File::write: `let mut disk = self.fs.disk.lock().await` (Shared::acquire).
CrDiskAcquire(t) ==
    /\ crPc[t] = "allocated"
    /\ crDisk.holder = NoHolder
    /\ crDisk' = [crDisk EXCEPT !.holder = t]
    /\ crPc' = [crPc EXCEPT ![t] = "locked"]
    /\ UNCHANGED <<crFat, crDir, crData, crLocal>>
    /\ UNCHANGED CrOthers

\* File::write: `disk.seek(SeekFrom::Start(offset_in_fs)).await` under the lock.
CrDiskSeek(t) ==
    /\ crPc[t] = "locked"
    /\ crDisk.holder = t
    /\ crDisk' = [crDisk EXCEPT !.pos = crLocal[t].cluster]
    /\ crPc' = [crPc EXCEPT ![t] = "sought"]
    /\ UNCHANGED <<crFat, crDir, crData, crLocal>>
    /\ UNCHANGED CrOthers

\* File::write: `disk.write(..).await` at the stream's position, then the guard
\* is dropped.
CrDiskWrite(t) ==
    /\ crPc[t] = "sought"
    /\ crDisk.holder = t
    /\ crData' = [crData EXCEPT ![crDisk.pos] = t]
    /\ crDisk' = [crDisk EXCEPT !.holder = NoHolder]
    /\ crPc' = [crPc EXCEPT ![t] = "written"]
    /\ UNCHANGED <<crFat, crDir, crLocal>>
    /\ UNCHANGED CrOthers

\* File::flush: the directory entry editor writes first cluster and size to the
\* entry's slot.
CreateFlush(t) ==
    /\ crPc[t] = "written"
    /\ crDisk.holder = NoHolder
    /\ crDir' = [crDir EXCEPT ![crLocal[t].slot] =
                    [name |-> t, first_cluster |-> crLocal[t].cluster, size |-> 1]]
    /\ crPc' = [crPc EXCEPT ![t] = "done"]
    /\ UNCHANGED <<crFat, crData, crDisk, crLocal>>
    /\ UNCHANGED CrOthers

NextCreate ==
    \/ \E t \in Creators : CreateFindSlot(t)
    \/ \E t \in Creators : CreateWriteEntry(t)
    \/ \E t \in Creators : AllocLocate(t)
    \/ \E t \in Creators : AllocMark(t)
    \/ \E t \in Creators : CrDiskAcquire(t)
    \/ \E t \in Creators : CrDiskSeek(t)
    \/ \E t \in Creators : CrDiskWrite(t)
    \/ \E t \in Creators : CreateFlush(t)

\* Seek and write of one File::write are not separated: a task about to write
\* finds the stream where it put it.
SeekWriteAtomic ==
    \A t \in Creators : crPc[t] = "sought" => crDisk.pos = crLocal[t].cluster

\* The file of task t is in the directory and holds t's bytes.
FileIntact(t) ==
    \E s \in CrSlots :
        /\ crDir[s].name = t
        /\ crDir[s].first_cluster # NoCluster
        /\ crFat[crDir[s].first_cluster] = EndOfChain
        /\ crData[crDir[s].first_cluster] = t

\* No cluster belongs to two files.
NoCrossLink ==
    \A s1, s2 \in CrSlots :
        (s1 # s2 /\ crDir[s1].first_cluster # NoCluster)
            => crDir[s1].first_cluster # crDir[s2].first_cluster

InitLock == InitLockVars /\ InitTxnVars /\ FileInitWith({}) /\ FatInitWith(TRUE) /\ InitLogGhost /\ BitmapInitIdle /\ DirCacheInitIdle /\ PageInitIdle /\ InitCheckpointVars /\ InitCreateVars
SpecLock == InitLock /\ [][NextLock]_vars
SpecLockedFile == InitLock /\ [][NextLockedFile]_vars

InitTxn == InitLockVars /\ InitTxnVars /\ FileInitWith({}) /\ FatInitWith(TRUE) /\ InitLogGhost /\ BitmapInitIdle /\ DirCacheInitIdle /\ PageInitIdle /\ InitCheckpointVars /\ InitCreateVars
SpecTxn == InitTxn /\ [][NextTxn]_vars

InitFile == InitLockVars /\ InitTxnVars /\ InitFileVars /\ FatInitWith(TRUE) /\ InitLogGhost /\ BitmapInitIdle /\ DirCacheInitIdle /\ PageInitIdle /\ InitCheckpointVars /\ InitCreateVars
SpecFile == InitFile /\ [][NextFile]_vars

InitCache == InitLockVars /\ InitTxnVars /\ FileInitWith({}) /\ InitCacheVars /\ InitLogGhost /\ BitmapInitIdle /\ DirCacheInitIdle /\ PageInitIdle /\ InitCheckpointVars /\ InitCreateVars
SpecCache == InitCache /\ [][NextCache]_vars

InitCacheByRanges == InitLockVars /\ InitTxnVars /\ FileInitWith({}) /\ InitCacheRanges /\ InitLogGhost /\ BitmapInitIdle /\ DirCacheInitIdle /\ PageInitIdle /\ InitCheckpointVars /\ InitCreateVars
SpecCacheRanges == InitCacheByRanges /\ [][NextCacheRanges]_vars

InitLog == InitLockVars /\ InitTxnVars /\ FileInitWith({}) /\ FatInitWith(TRUE) /\ InitLogGhost /\ BitmapInitIdle /\ DirCacheInitIdle /\ PageInitIdle /\ InitCheckpointVars /\ InitCreateVars
SpecLog == InitLog /\ [][NextLog]_vars

InitBitmap == InitLockVars /\ InitTxnVars /\ FileInitWith({}) /\ FatInitWith(TRUE) /\ InitLogGhost /\ InitBitmapVars /\ DirCacheInitIdle /\ PageInitIdle /\ InitCheckpointVars /\ InitCreateVars
SpecBitmap == InitBitmap /\ [][NextBitmap]_vars

InitDirCache == InitLockVars /\ InitTxnVars /\ FileInitWith({}) /\ FatInitWith(TRUE) /\ InitLogGhost /\ BitmapInitIdle /\ InitDirCacheVars /\ PageInitIdle /\ InitCheckpointVars /\ InitCreateVars
SpecDirCache == InitDirCache /\ [][NextDirCache]_vars

InitPageBuffer == InitLockVars /\ InitTxnVars /\ FileInitWith({}) /\ FatInitWith(TRUE) /\ InitLogGhost /\ BitmapInitIdle /\ DirCacheInitIdle /\ InitPageVars /\ InitCheckpointVars /\ InitCreateVars
SpecPageBuffer == InitPageBuffer /\ [][NextPageBuffer]_vars

InitCheckpoints == InitLockVars /\ InitTxnVars /\ FileInitWith({CkForeign}) /\ FatInitWith(TRUE) /\ InitLogGhost /\ BitmapInitIdle /\ DirCacheInitIdle /\ PageInitIdle /\ InitCheckpointVars /\ InitCreateVars
SpecCheckpoints == InitCheckpoints /\ [][NextCheckpoints]_vars

InitCreate == InitLockVars /\ InitTxnVars /\ FileInitWith({}) /\ FatInitWith(TRUE) /\ InitLogGhost /\ BitmapInitIdle /\ DirCacheInitIdle /\ PageInitIdle /\ InitCheckpointVars /\ InitCreateVars
SpecCreate == InitCreate /\ [][NextCreate]_vars

====
